---------------------------- MODULE Spec2Model ----------------------------
(***************************************************************************)
(* Model of the job discovery pipeline (src/src/agents/discovery.py):      *)
(* parallel search fan-out, URL deduplication, the local prefilter, the    *)
(* semaphore-capped scoring fan-out and the threshold filter and ranking.  *)
(*                                                                         *)
(* A Python str that the code inspects character by character (title,      *)
(* location, description, keywords) is a sequence of one-character         *)
(* strings; a str that is only hashed or compared (a URL, an id) is a      *)
(* TLA+ string.  A Python dict is a function whose DOMAIN is the set of    *)
(* keys that are present.  A score is an integer number of hundredths.     *)
(***************************************************************************)
EXTENDS Integers, Sequences, FiniteSets, TLC

VARIABLES
    preferences,     \* the dict load_preferences returned
    provider,        \* environment: what each search call will produce
    oracle,          \* environment: the kind of oracle the run talks to
    pc,              \* position of run_discovery
    search_results,  \* the list asyncio.gather builds for the searches
    search_calls,    \* number of search-provider calls issued
    seen,            \* set of external ids seen by the dedup loop
    candidates,      \* list of (external_id, url, job)
    task,            \* per candidate: state of its _score task
    semaphore,       \* _value of asyncio.Semaphore(5)
    oracle_calls,    \* per candidate: number of oracle calls issued
    scored,          \* the list asyncio.gather builds for the scoring tasks
    all_jobs,        \* the returned list
    error            \* the exception run_discovery raised, if any

discovery_vars ==
    <<preferences, provider, oracle, pc, search_results, search_calls, seen,
      candidates, task, semaphore, oracle_calls, scored, all_jobs, error>>

\* The jobs table and the requests of the API that write to it.
VARIABLES
    jobs_table,      \* the rows of the jobs table, in insertion order
    sqlite_sequence, \* the AUTOINCREMENT counter of the jobs table
    request,         \* position of a trigger_discovery request
    last_insert      \* the last insert_job call: its argument and result

store_vars == <<jobs_table, sqlite_sequence, request, last_insert>>

\* Two invocations of run_discovery that run at the same time.
VARIABLES
    runs             \* per invocation: the locals of run_discovery

\* One call of a function of discovery.py on its own.
VARIABLES
    call             \* the function called, its arguments and its result

\* The variables the single run_discovery of the model never touches.
beyond_discovery == <<store_vars, runs, call>>

\* The variables the requests on the jobs table never touch.
beyond_store == <<discovery_vars, runs, call>>

\* The variables the two invocations never touch.
beyond_pair == <<discovery_vars, store_vars, call>>

\* The variables a call of a function on its own never touches.
beyond_call == <<discovery_vars, store_vars, runs>>

vars == <<discovery_vars, beyond_discovery>>

----------------------------------------------------------------------------
(* Bounds of the model.                                                    *)

\* Total number of listings the catalogue provider returns over all queries.
MaxListings == 3

\* Number of listings the bulk provider returns (all distinct URLs).
MaxBulk == 6

\* Total number of listings returned when the oracle may answer anything.
MaxListingsAnyAnswer == 2

\* Total number of listings returned when the preferences are incomplete.
MaxListingsIncomplete == 1

\* Jobs per discovery run saved by trigger_discovery.
MaxSaved == 2

\* Rowids the jobs table hands out.
MaxRowid == 3

\* Listings per query when two invocations run at the same time.
MaxPairListings == 1

\* Entries of the apply_options collection of a listing.
MaxApplyOptions == 2

\* Rows of the jobs table when a single job is looked up.
MaxStored == 51

----------------------------------------------------------------------------
(* Python primitives.                                                      *)

\* None, stored as SQL NULL
Null == "NULL"

\* dict.get(key, default)
Get(d, key, default) == IF key \in DOMAIN d THEN d[key] ELSE default

\* A character is a string of one character; a character that a string of
\* this notation cannot hold is written by its code point, "U+0130" for
\* LATIN CAPITAL LETTER I WITH DOT ABOVE.  A Python str is the sequence of
\* its characters.

\* The characters str.lower() maps to one other character, each with its
\* lower case (the Unicode 14 tables of Python 3.11)
LowerPairs ==
    {<<"A", "a">>, <<"B", "b">>, <<"C", "c">>, <<"D", "d">>, <<"E", "e">>,
     <<"F", "f">>, <<"G", "g">>, <<"H", "h">>, <<"I", "i">>, <<"J", "j">>,
     <<"K", "k">>, <<"L", "l">>, <<"M", "m">>, <<"N", "n">>, <<"O", "o">>,
     <<"P", "p">>, <<"Q", "q">>, <<"R", "r">>, <<"S", "s">>, <<"T", "t">>,
     <<"U", "u">>, <<"V", "v">>, <<"W", "w">>, <<"X", "x">>, <<"Y", "y">>,
     <<"Z", "z">>, <<"À", "à">>, <<"Á", "á">>, <<"Â", "â">>, <<"Ã", "ã">>,
     <<"Ä", "ä">>, <<"Å", "å">>, <<"Æ", "æ">>, <<"Ç", "ç">>, <<"È", "è">>,
     <<"É", "é">>, <<"Ê", "ê">>, <<"Ë", "ë">>, <<"Ì", "ì">>, <<"Í", "í">>,
     <<"Î", "î">>, <<"Ï", "ï">>, <<"Ð", "ð">>, <<"Ñ", "ñ">>, <<"Ò", "ò">>,
     <<"Ó", "ó">>, <<"Ô", "ô">>, <<"Õ", "õ">>, <<"Ö", "ö">>, <<"Ø", "ø">>,
     <<"Ù", "ù">>, <<"Ú", "ú">>, <<"Û", "û">>, <<"Ü", "ü">>, <<"Ý", "ý">>,
     <<"Þ", "þ">>, <<"U+0100", "U+0101">>, <<"U+0102", "U+0103">>,
     <<"U+0104", "U+0105">>, <<"U+0106", "U+0107">>,
     <<"U+0108", "U+0109">>, <<"U+010A", "U+010B">>,
     <<"U+010C", "U+010D">>, <<"U+010E", "U+010F">>,
     <<"U+0110", "U+0111">>, <<"U+0112", "U+0113">>,
     <<"U+0114", "U+0115">>, <<"U+0116", "U+0117">>,
     <<"U+0118", "U+0119">>, <<"U+011A", "U+011B">>,
     <<"U+011C", "U+011D">>, <<"U+011E", "U+011F">>,
     <<"U+0120", "U+0121">>, <<"U+0122", "U+0123">>,
     <<"U+0124", "U+0125">>, <<"U+0126", "U+0127">>,
     <<"U+0128", "U+0129">>, <<"U+012A", "U+012B">>,
     <<"U+012C", "U+012D">>, <<"U+012E", "U+012F">>,
     <<"U+0132", "U+0133">>, <<"U+0134", "U+0135">>,
     <<"U+0136", "U+0137">>, <<"U+0139", "U+013A">>,
     <<"U+013B", "U+013C">>, <<"U+013D", "U+013E">>,
     <<"U+013F", "U+0140">>, <<"U+0141", "U+0142">>,
     <<"U+0143", "U+0144">>, <<"U+0145", "U+0146">>,
     <<"U+0147", "U+0148">>, <<"U+014A", "U+014B">>,
     <<"U+014C", "U+014D">>, <<"U+014E", "U+014F">>,
     <<"U+0150", "U+0151">>, <<"U+0152", "U+0153">>,
     <<"U+0154", "U+0155">>, <<"U+0156", "U+0157">>,
     <<"U+0158", "U+0159">>, <<"U+015A", "U+015B">>,
     <<"U+015C", "U+015D">>, <<"U+015E", "U+015F">>,
     <<"U+0160", "U+0161">>, <<"U+0162", "U+0163">>,
     <<"U+0164", "U+0165">>, <<"U+0166", "U+0167">>,
     <<"U+0168", "U+0169">>, <<"U+016A", "U+016B">>,
     <<"U+016C", "U+016D">>, <<"U+016E", "U+016F">>,
     <<"U+0170", "U+0171">>, <<"U+0172", "U+0173">>,
     <<"U+0174", "U+0175">>, <<"U+0176", "U+0177">>, <<"U+0178", "ÿ">>,
     <<"U+0179", "U+017A">>, <<"U+017B", "U+017C">>,
     <<"U+017D", "U+017E">>, <<"Ɓ", "U+0253">>, <<"Ƃ", "ƃ">>, <<"Ƅ", "ƅ">>,
     <<"Ɔ", "U+0254">>, <<"Ƈ", "ƈ">>, <<"Ɖ", "U+0256">>, <<"Ɗ", "U+0257">>,
     <<"Ƌ", "ƌ">>, <<"Ǝ", "ǝ">>, <<"Ə", "U+0259">>, <<"Ɛ", "U+025B">>,
     <<"Ƒ", "ƒ">>, <<"Ɠ", "U+0260">>, <<"Ɣ", "U+0263">>, <<"Ɩ", "U+0269">>,
     <<"Ɨ", "U+0268">>, <<"Ƙ", "ƙ">>, <<"Ɯ", "U+026F">>, <<"Ɲ", "U+0272">>,
     <<"Ɵ", "U+0275">>, <<"Ơ", "ơ">>, <<"Ƣ", "ƣ">>, <<"Ƥ", "ƥ">>,
     <<"Ʀ", "ʀ">>, <<"Ƨ", "ƨ">>, <<"Ʃ", "ʃ">>, <<"Ƭ", "ƭ">>, <<"Ʈ", "ʈ">>,
     <<"Ư", "ư">>, <<"Ʊ", "ʊ">>, <<"Ʋ", "ʋ">>, <<"Ƴ", "ƴ">>, <<"Ƶ", "ƶ">>,
     <<"Ʒ", "ʒ">>, <<"Ƹ", "ƹ">>, <<"Ƽ", "ƽ">>, <<"Ǆ", "ǆ">>, <<"ǅ", "ǆ">>,
     <<"Ǉ", "ǉ">>, <<"ǈ", "ǉ">>, <<"Ǌ", "ǌ">>, <<"ǋ", "ǌ">>, <<"Ǎ", "ǎ">>,
     <<"Ǐ", "ǐ">>, <<"Ǒ", "ǒ">>, <<"Ǔ", "ǔ">>, <<"Ǖ", "ǖ">>, <<"Ǘ", "ǘ">>,
     <<"Ǚ", "ǚ">>, <<"Ǜ", "ǜ">>, <<"Ǟ", "ǟ">>, <<"Ǡ", "ǡ">>, <<"Ǣ", "ǣ">>,
     <<"Ǥ", "ǥ">>, <<"Ǧ", "ǧ">>, <<"Ǩ", "ǩ">>, <<"Ǫ", "ǫ">>, <<"Ǭ", "ǭ">>,
     <<"Ǯ", "ǯ">>, <<"Ǳ", "ǳ">>, <<"ǲ", "ǳ">>, <<"Ǵ", "ǵ">>, <<"Ƕ", "ƕ">>,
     <<"Ƿ", "ƿ">>, <<"Ǹ", "ǹ">>, <<"Ǻ", "ǻ">>, <<"Ǽ", "ǽ">>, <<"Ǿ", "ǿ">>,
     <<"U+0200", "U+0201">>, <<"U+0202", "U+0203">>,
     <<"U+0204", "U+0205">>, <<"U+0206", "U+0207">>,
     <<"U+0208", "U+0209">>, <<"U+020A", "U+020B">>,
     <<"U+020C", "U+020D">>, <<"U+020E", "U+020F">>,
     <<"U+0210", "U+0211">>, <<"U+0212", "U+0213">>,
     <<"U+0214", "U+0215">>, <<"U+0216", "U+0217">>,
     <<"U+0218", "U+0219">>, <<"U+021A", "U+021B">>,
     <<"U+021C", "U+021D">>, <<"U+021E", "U+021F">>, <<"U+0220", "ƞ">>,
     <<"U+0222", "U+0223">>, <<"U+0224", "U+0225">>,
     <<"U+0226", "U+0227">>, <<"U+0228", "U+0229">>,
     <<"U+022A", "U+022B">>, <<"U+022C", "U+022D">>,
     <<"U+022E", "U+022F">>, <<"U+0230", "U+0231">>,
     <<"U+0232", "U+0233">>, <<"U+023A", "U+2C65">>,
     <<"U+023B", "U+023C">>, <<"U+023D", "ƚ">>, <<"U+023E", "U+2C66">>,
     <<"U+0241", "U+0242">>, <<"U+0243", "ƀ">>, <<"U+0244", "ʉ">>,
     <<"U+0245", "ʌ">>, <<"U+0246", "U+0247">>, <<"U+0248", "U+0249">>,
     <<"U+024A", "U+024B">>, <<"U+024C", "U+024D">>,
     <<"U+024E", "U+024F">>, <<"U+0370", "U+0371">>,
     <<"U+0372", "U+0373">>, <<"U+0376", "U+0377">>, <<"U+037F", "ϳ">>,
     <<"Ά", "ά">>, <<"Έ", "έ">>, <<"Ή", "ή">>, <<"Ί", "ί">>, <<"Ό", "ό">>,
     <<"Ύ", "ύ">>, <<"Ώ", "ώ">>, <<"Α", "α">>, <<"Β", "β">>, <<"Γ", "γ">>,
     <<"Δ", "δ">>, <<"Ε", "ε">>, <<"Ζ", "ζ">>, <<"Η", "η">>, <<"Θ", "θ">>,
     <<"Ι", "ι">>, <<"Κ", "κ">>, <<"Λ", "λ">>, <<"Μ", "μ">>, <<"Ν", "ν">>,
     <<"Ξ", "ξ">>, <<"Ο", "ο">>, <<"Π", "π">>, <<"Ρ", "ρ">>, <<"Σ", "σ">>,
     <<"Τ", "τ">>, <<"Υ", "υ">>, <<"Φ", "φ">>, <<"Χ", "χ">>, <<"Ψ", "ψ">>,
     <<"Ω", "ω">>, <<"Ϊ", "ϊ">>, <<"Ϋ", "ϋ">>, <<"Ϗ", "ϗ">>, <<"Ϙ", "ϙ">>,
     <<"Ϛ", "ϛ">>, <<"Ϝ", "ϝ">>, <<"Ϟ", "ϟ">>, <<"Ϡ", "ϡ">>, <<"Ϣ", "ϣ">>,
     <<"Ϥ", "ϥ">>, <<"Ϧ", "ϧ">>, <<"Ϩ", "ϩ">>, <<"Ϫ", "ϫ">>, <<"Ϭ", "ϭ">>,
     <<"Ϯ", "ϯ">>, <<"ϴ", "θ">>, <<"Ϸ", "ϸ">>, <<"Ϲ", "ϲ">>, <<"Ϻ", "ϻ">>,
     <<"Ͻ", "U+037B">>, <<"Ͼ", "U+037C">>, <<"Ͽ", "U+037D">>,
     <<"U+0400", "U+0450">>, <<"U+0401", "U+0451">>,
     <<"U+0402", "U+0452">>, <<"U+0403", "U+0453">>,
     <<"U+0404", "U+0454">>, <<"U+0405", "U+0455">>,
     <<"U+0406", "U+0456">>, <<"U+0407", "U+0457">>,
     <<"U+0408", "U+0458">>, <<"U+0409", "U+0459">>,
     <<"U+040A", "U+045A">>, <<"U+040B", "U+045B">>,
     <<"U+040C", "U+045C">>, <<"U+040D", "U+045D">>,
     <<"U+040E", "U+045E">>, <<"U+040F", "U+045F">>,
     <<"U+0410", "U+0430">>, <<"U+0411", "U+0431">>,
     <<"U+0412", "U+0432">>, <<"U+0413", "U+0433">>,
     <<"U+0414", "U+0434">>, <<"U+0415", "U+0435">>,
     <<"U+0416", "U+0436">>, <<"U+0417", "U+0437">>,
     <<"U+0418", "U+0438">>, <<"U+0419", "U+0439">>,
     <<"U+041A", "U+043A">>, <<"U+041B", "U+043B">>,
     <<"U+041C", "U+043C">>, <<"U+041D", "U+043D">>,
     <<"U+041E", "U+043E">>, <<"U+041F", "U+043F">>,
     <<"U+0420", "U+0440">>, <<"U+0421", "U+0441">>,
     <<"U+0422", "U+0442">>, <<"U+0423", "U+0443">>,
     <<"U+0424", "U+0444">>, <<"U+0425", "U+0445">>,
     <<"U+0426", "U+0446">>, <<"U+0427", "U+0447">>,
     <<"U+0428", "U+0448">>, <<"U+0429", "U+0449">>,
     <<"U+042A", "U+044A">>, <<"U+042B", "U+044B">>,
     <<"U+042C", "U+044C">>, <<"U+042D", "U+044D">>,
     <<"U+042E", "U+044E">>, <<"U+042F", "U+044F">>,
     <<"U+0460", "U+0461">>, <<"U+0462", "U+0463">>,
     <<"U+0464", "U+0465">>, <<"U+0466", "U+0467">>,
     <<"U+0468", "U+0469">>, <<"U+046A", "U+046B">>,
     <<"U+046C", "U+046D">>, <<"U+046E", "U+046F">>,
     <<"U+0470", "U+0471">>, <<"U+0472", "U+0473">>,
     <<"U+0474", "U+0475">>, <<"U+0476", "U+0477">>,
     <<"U+0478", "U+0479">>, <<"U+047A", "U+047B">>,
     <<"U+047C", "U+047D">>, <<"U+047E", "U+047F">>, <<"Ҁ", "ҁ">>,
     <<"Ҋ", "ҋ">>, <<"Ҍ", "ҍ">>, <<"Ҏ", "ҏ">>, <<"Ґ", "ґ">>, <<"Ғ", "ғ">>,
     <<"Ҕ", "ҕ">>, <<"Җ", "җ">>, <<"Ҙ", "ҙ">>, <<"Қ", "қ">>, <<"Ҝ", "ҝ">>,
     <<"Ҟ", "ҟ">>, <<"Ҡ", "ҡ">>, <<"Ң", "ң">>, <<"Ҥ", "ҥ">>, <<"Ҧ", "ҧ">>,
     <<"Ҩ", "ҩ">>, <<"Ҫ", "ҫ">>, <<"Ҭ", "ҭ">>, <<"Ү", "ү">>, <<"Ұ", "ұ">>,
     <<"Ҳ", "ҳ">>, <<"Ҵ", "ҵ">>, <<"Ҷ", "ҷ">>, <<"Ҹ", "ҹ">>, <<"Һ", "һ">>,
     <<"Ҽ", "ҽ">>, <<"Ҿ", "ҿ">>, <<"Ӏ", "ӏ">>, <<"Ӂ", "ӂ">>, <<"Ӄ", "ӄ">>,
     <<"Ӆ", "ӆ">>, <<"Ӈ", "ӈ">>, <<"Ӊ", "ӊ">>, <<"Ӌ", "ӌ">>, <<"Ӎ", "ӎ">>,
     <<"Ӑ", "ӑ">>, <<"Ӓ", "ӓ">>, <<"Ӕ", "ӕ">>, <<"Ӗ", "ӗ">>, <<"Ә", "ә">>,
     <<"Ӛ", "ӛ">>, <<"Ӝ", "ӝ">>, <<"Ӟ", "ӟ">>, <<"Ӡ", "ӡ">>, <<"Ӣ", "ӣ">>,
     <<"Ӥ", "ӥ">>, <<"Ӧ", "ӧ">>, <<"Ө", "ө">>, <<"Ӫ", "ӫ">>, <<"Ӭ", "ӭ">>,
     <<"Ӯ", "ӯ">>, <<"Ӱ", "ӱ">>, <<"Ӳ", "ӳ">>, <<"Ӵ", "ӵ">>, <<"Ӷ", "ӷ">>,
     <<"Ӹ", "ӹ">>, <<"Ӻ", "ӻ">>, <<"Ӽ", "ӽ">>, <<"Ӿ", "ӿ">>,
     <<"U+0500", "U+0501">>, <<"U+0502", "U+0503">>,
     <<"U+0504", "U+0505">>, <<"U+0506", "U+0507">>,
     <<"U+0508", "U+0509">>, <<"U+050A", "U+050B">>,
     <<"U+050C", "U+050D">>, <<"U+050E", "U+050F">>,
     <<"U+0510", "U+0511">>, <<"U+0512", "U+0513">>,
     <<"U+0514", "U+0515">>, <<"U+0516", "U+0517">>,
     <<"U+0518", "U+0519">>, <<"U+051A", "U+051B">>,
     <<"U+051C", "U+051D">>, <<"U+051E", "U+051F">>,
     <<"U+0520", "U+0521">>, <<"U+0522", "U+0523">>,
     <<"U+0524", "U+0525">>, <<"U+0526", "U+0527">>,
     <<"U+0528", "U+0529">>, <<"U+052A", "U+052B">>,
     <<"U+052C", "U+052D">>, <<"U+052E", "U+052F">>,
     <<"U+0531", "U+0561">>, <<"U+0532", "U+0562">>,
     <<"U+0533", "U+0563">>, <<"U+0534", "U+0564">>,
     <<"U+0535", "U+0565">>, <<"U+0536", "U+0566">>,
     <<"U+0537", "U+0567">>, <<"U+0538", "U+0568">>,
     <<"U+0539", "U+0569">>, <<"U+053A", "U+056A">>,
     <<"U+053B", "U+056B">>, <<"U+053C", "U+056C">>,
     <<"U+053D", "U+056D">>, <<"U+053E", "U+056E">>,
     <<"U+053F", "U+056F">>, <<"U+0540", "U+0570">>,
     <<"U+0541", "U+0571">>, <<"U+0542", "U+0572">>,
     <<"U+0543", "U+0573">>, <<"U+0544", "U+0574">>,
     <<"U+0545", "U+0575">>, <<"U+0546", "U+0576">>,
     <<"U+0547", "U+0577">>, <<"U+0548", "U+0578">>,
     <<"U+0549", "U+0579">>, <<"U+054A", "U+057A">>,
     <<"U+054B", "U+057B">>, <<"U+054C", "U+057C">>,
     <<"U+054D", "U+057D">>, <<"U+054E", "U+057E">>,
     <<"U+054F", "U+057F">>, <<"U+0550", "ր">>, <<"U+0551", "ց">>,
     <<"U+0552", "ւ">>, <<"U+0553", "փ">>, <<"U+0554", "ք">>,
     <<"U+0555", "օ">>, <<"U+0556", "ֆ">>, <<"Ⴀ", "U+2D00">>,
     <<"Ⴁ", "U+2D01">>, <<"Ⴂ", "U+2D02">>, <<"Ⴃ", "U+2D03">>,
     <<"Ⴄ", "U+2D04">>, <<"Ⴅ", "U+2D05">>, <<"Ⴆ", "U+2D06">>,
     <<"Ⴇ", "U+2D07">>, <<"Ⴈ", "U+2D08">>, <<"Ⴉ", "U+2D09">>,
     <<"Ⴊ", "U+2D0A">>, <<"Ⴋ", "U+2D0B">>, <<"Ⴌ", "U+2D0C">>,
     <<"Ⴍ", "U+2D0D">>, <<"Ⴎ", "U+2D0E">>, <<"Ⴏ", "U+2D0F">>,
     <<"Ⴐ", "U+2D10">>, <<"Ⴑ", "U+2D11">>, <<"Ⴒ", "U+2D12">>,
     <<"Ⴓ", "U+2D13">>, <<"Ⴔ", "U+2D14">>, <<"Ⴕ", "U+2D15">>,
     <<"Ⴖ", "U+2D16">>, <<"Ⴗ", "U+2D17">>, <<"Ⴘ", "U+2D18">>,
     <<"Ⴙ", "U+2D19">>, <<"Ⴚ", "U+2D1A">>, <<"Ⴛ", "U+2D1B">>,
     <<"Ⴜ", "U+2D1C">>, <<"Ⴝ", "U+2D1D">>, <<"Ⴞ", "U+2D1E">>,
     <<"Ⴟ", "U+2D1F">>, <<"Ⴠ", "U+2D20">>, <<"Ⴡ", "U+2D21">>,
     <<"Ⴢ", "U+2D22">>, <<"Ⴣ", "U+2D23">>, <<"Ⴤ", "U+2D24">>,
     <<"Ⴥ", "U+2D25">>, <<"Ⴧ", "U+2D27">>, <<"Ⴭ", "U+2D2D">>,
     <<"Ꭰ", "U+AB70">>, <<"Ꭱ", "U+AB71">>, <<"Ꭲ", "U+AB72">>,
     <<"Ꭳ", "U+AB73">>, <<"Ꭴ", "U+AB74">>, <<"Ꭵ", "U+AB75">>,
     <<"Ꭶ", "U+AB76">>, <<"Ꭷ", "U+AB77">>, <<"Ꭸ", "U+AB78">>,
     <<"Ꭹ", "U+AB79">>, <<"Ꭺ", "U+AB7A">>, <<"Ꭻ", "U+AB7B">>,
     <<"Ꭼ", "U+AB7C">>, <<"Ꭽ", "U+AB7D">>, <<"Ꭾ", "U+AB7E">>,
     <<"Ꭿ", "U+AB7F">>, <<"Ꮀ", "ꮀ">>, <<"Ꮁ", "ꮁ">>, <<"Ꮂ", "ꮂ">>,
     <<"Ꮃ", "ꮃ">>, <<"Ꮄ", "ꮄ">>, <<"Ꮅ", "ꮅ">>, <<"Ꮆ", "ꮆ">>, <<"Ꮇ", "ꮇ">>,
     <<"Ꮈ", "ꮈ">>, <<"Ꮉ", "ꮉ">>, <<"Ꮊ", "ꮊ">>, <<"Ꮋ", "ꮋ">>, <<"Ꮌ", "ꮌ">>,
     <<"Ꮍ", "ꮍ">>, <<"Ꮎ", "ꮎ">>, <<"Ꮏ", "ꮏ">>, <<"Ꮐ", "ꮐ">>, <<"Ꮑ", "ꮑ">>,
     <<"Ꮒ", "ꮒ">>, <<"Ꮓ", "ꮓ">>, <<"Ꮔ", "ꮔ">>, <<"Ꮕ", "ꮕ">>, <<"Ꮖ", "ꮖ">>,
     <<"Ꮗ", "ꮗ">>, <<"Ꮘ", "ꮘ">>, <<"Ꮙ", "ꮙ">>, <<"Ꮚ", "ꮚ">>, <<"Ꮛ", "ꮛ">>,
     <<"Ꮜ", "ꮜ">>, <<"Ꮝ", "ꮝ">>, <<"Ꮞ", "ꮞ">>, <<"Ꮟ", "ꮟ">>, <<"Ꮠ", "ꮠ">>,
     <<"Ꮡ", "ꮡ">>, <<"Ꮢ", "ꮢ">>, <<"Ꮣ", "ꮣ">>, <<"Ꮤ", "ꮤ">>, <<"Ꮥ", "ꮥ">>,
     <<"Ꮦ", "ꮦ">>, <<"Ꮧ", "ꮧ">>, <<"Ꮨ", "ꮨ">>, <<"Ꮩ", "ꮩ">>, <<"Ꮪ", "ꮪ">>,
     <<"Ꮫ", "ꮫ">>, <<"Ꮬ", "ꮬ">>, <<"Ꮭ", "ꮭ">>, <<"Ꮮ", "ꮮ">>, <<"Ꮯ", "ꮯ">>,
     <<"Ꮰ", "ꮰ">>, <<"Ꮱ", "ꮱ">>, <<"Ꮲ", "ꮲ">>, <<"Ꮳ", "ꮳ">>, <<"Ꮴ", "ꮴ">>,
     <<"Ꮵ", "ꮵ">>, <<"Ꮶ", "ꮶ">>, <<"Ꮷ", "ꮷ">>, <<"Ꮸ", "ꮸ">>, <<"Ꮹ", "ꮹ">>,
     <<"Ꮺ", "ꮺ">>, <<"Ꮻ", "ꮻ">>, <<"Ꮼ", "ꮼ">>, <<"Ꮽ", "ꮽ">>, <<"Ꮾ", "ꮾ">>,
     <<"Ꮿ", "ꮿ">>, <<"Ᏸ", "ᏸ">>, <<"Ᏹ", "ᏹ">>, <<"Ᏺ", "ᏺ">>, <<"Ᏻ", "ᏻ">>,
     <<"Ᏼ", "ᏼ">>, <<"Ᏽ", "ᏽ">>, <<"Ა", "ა">>, <<"Ბ", "ბ">>, <<"Გ", "გ">>,
     <<"Დ", "დ">>, <<"Ე", "ე">>, <<"Ვ", "ვ">>, <<"Ზ", "ზ">>, <<"Თ", "თ">>,
     <<"Ი", "ი">>, <<"Კ", "კ">>, <<"Ლ", "ლ">>, <<"Მ", "მ">>, <<"Ნ", "ნ">>,
     <<"Ო", "ო">>, <<"Პ", "პ">>, <<"Ჟ", "ჟ">>, <<"Რ", "რ">>, <<"Ს", "ს">>,
     <<"Ტ", "ტ">>, <<"Უ", "უ">>, <<"Ფ", "ფ">>, <<"Ქ", "ქ">>, <<"Ღ", "ღ">>,
     <<"Ყ", "ყ">>, <<"Შ", "შ">>, <<"Ჩ", "ჩ">>, <<"Ც", "ც">>, <<"Ძ", "ძ">>,
     <<"Წ", "წ">>, <<"Ჭ", "ჭ">>, <<"Ხ", "ხ">>, <<"Ჯ", "ჯ">>, <<"Ჰ", "ჰ">>,
     <<"Ჱ", "ჱ">>, <<"Ჲ", "ჲ">>, <<"Ჳ", "ჳ">>, <<"Ჴ", "ჴ">>, <<"Ჵ", "ჵ">>,
     <<"Ჶ", "ჶ">>, <<"Ჷ", "ჷ">>, <<"Ჸ", "ჸ">>, <<"Ჹ", "ჹ">>, <<"Ჺ", "ჺ">>,
     <<"Ჽ", "ჽ">>, <<"Ჾ", "ჾ">>, <<"Ჿ", "ჿ">>, <<"U+1E00", "U+1E01">>,
     <<"U+1E02", "U+1E03">>, <<"U+1E04", "U+1E05">>,
     <<"U+1E06", "U+1E07">>, <<"U+1E08", "U+1E09">>,
     <<"U+1E0A", "U+1E0B">>, <<"U+1E0C", "U+1E0D">>,
     <<"U+1E0E", "U+1E0F">>, <<"U+1E10", "U+1E11">>,
     <<"U+1E12", "U+1E13">>, <<"U+1E14", "U+1E15">>,
     <<"U+1E16", "U+1E17">>, <<"U+1E18", "U+1E19">>,
     <<"U+1E1A", "U+1E1B">>, <<"U+1E1C", "U+1E1D">>,
     <<"U+1E1E", "U+1E1F">>, <<"U+1E20", "U+1E21">>,
     <<"U+1E22", "U+1E23">>, <<"U+1E24", "U+1E25">>,
     <<"U+1E26", "U+1E27">>, <<"U+1E28", "U+1E29">>,
     <<"U+1E2A", "U+1E2B">>, <<"U+1E2C", "U+1E2D">>,
     <<"U+1E2E", "U+1E2F">>, <<"U+1E30", "U+1E31">>,
     <<"U+1E32", "U+1E33">>, <<"U+1E34", "U+1E35">>,
     <<"U+1E36", "U+1E37">>, <<"U+1E38", "U+1E39">>,
     <<"U+1E3A", "U+1E3B">>, <<"U+1E3C", "U+1E3D">>,
     <<"U+1E3E", "U+1E3F">>, <<"U+1E40", "U+1E41">>,
     <<"U+1E42", "U+1E43">>, <<"U+1E44", "U+1E45">>,
     <<"U+1E46", "U+1E47">>, <<"U+1E48", "U+1E49">>,
     <<"U+1E4A", "U+1E4B">>, <<"U+1E4C", "U+1E4D">>,
     <<"U+1E4E", "U+1E4F">>, <<"U+1E50", "U+1E51">>,
     <<"U+1E52", "U+1E53">>, <<"U+1E54", "U+1E55">>,
     <<"U+1E56", "U+1E57">>, <<"U+1E58", "U+1E59">>,
     <<"U+1E5A", "U+1E5B">>, <<"U+1E5C", "U+1E5D">>,
     <<"U+1E5E", "U+1E5F">>, <<"U+1E60", "U+1E61">>,
     <<"U+1E62", "U+1E63">>, <<"U+1E64", "U+1E65">>,
     <<"U+1E66", "U+1E67">>, <<"U+1E68", "U+1E69">>,
     <<"U+1E6A", "U+1E6B">>, <<"U+1E6C", "U+1E6D">>,
     <<"U+1E6E", "U+1E6F">>, <<"U+1E70", "U+1E71">>,
     <<"U+1E72", "U+1E73">>, <<"U+1E74", "U+1E75">>,
     <<"U+1E76", "U+1E77">>, <<"U+1E78", "U+1E79">>,
     <<"U+1E7A", "U+1E7B">>, <<"U+1E7C", "U+1E7D">>,
     <<"U+1E7E", "U+1E7F">>, <<"Ẁ", "ẁ">>, <<"Ẃ", "ẃ">>, <<"Ẅ", "ẅ">>,
     <<"Ẇ", "ẇ">>, <<"Ẉ", "ẉ">>, <<"Ẋ", "ẋ">>, <<"Ẍ", "ẍ">>, <<"Ẏ", "ẏ">>,
     <<"Ẑ", "ẑ">>, <<"Ẓ", "ẓ">>, <<"Ẕ", "ẕ">>, <<"ẞ", "ß">>, <<"Ạ", "ạ">>,
     <<"Ả", "ả">>, <<"Ấ", "ấ">>, <<"Ầ", "ầ">>, <<"Ẩ", "ẩ">>, <<"Ẫ", "ẫ">>,
     <<"Ậ", "ậ">>, <<"Ắ", "ắ">>, <<"Ằ", "ằ">>, <<"Ẳ", "ẳ">>, <<"Ẵ", "ẵ">>,
     <<"Ặ", "ặ">>, <<"Ẹ", "ẹ">>, <<"Ẻ", "ẻ">>, <<"Ẽ", "ẽ">>, <<"Ế", "ế">>,
     <<"Ề", "ề">>, <<"Ể", "ể">>, <<"Ễ", "ễ">>, <<"Ệ", "ệ">>, <<"Ỉ", "ỉ">>,
     <<"Ị", "ị">>, <<"Ọ", "ọ">>, <<"Ỏ", "ỏ">>, <<"Ố", "ố">>, <<"Ồ", "ồ">>,
     <<"Ổ", "ổ">>, <<"Ỗ", "ỗ">>, <<"Ộ", "ộ">>, <<"Ớ", "ớ">>, <<"Ờ", "ờ">>,
     <<"Ở", "ở">>, <<"Ỡ", "ỡ">>, <<"Ợ", "ợ">>, <<"Ụ", "ụ">>, <<"Ủ", "ủ">>,
     <<"Ứ", "ứ">>, <<"Ừ", "ừ">>, <<"Ử", "ử">>, <<"Ữ", "ữ">>, <<"Ự", "ự">>,
     <<"Ỳ", "ỳ">>, <<"Ỵ", "ỵ">>, <<"Ỷ", "ỷ">>, <<"Ỹ", "ỹ">>, <<"Ỻ", "ỻ">>,
     <<"Ỽ", "ỽ">>, <<"Ỿ", "ỿ">>, <<"U+1F08", "U+1F00">>,
     <<"U+1F09", "U+1F01">>, <<"U+1F0A", "U+1F02">>,
     <<"U+1F0B", "U+1F03">>, <<"U+1F0C", "U+1F04">>,
     <<"U+1F0D", "U+1F05">>, <<"U+1F0E", "U+1F06">>,
     <<"U+1F0F", "U+1F07">>, <<"U+1F18", "U+1F10">>,
     <<"U+1F19", "U+1F11">>, <<"U+1F1A", "U+1F12">>,
     <<"U+1F1B", "U+1F13">>, <<"U+1F1C", "U+1F14">>,
     <<"U+1F1D", "U+1F15">>, <<"U+1F28", "U+1F20">>,
     <<"U+1F29", "U+1F21">>, <<"U+1F2A", "U+1F22">>,
     <<"U+1F2B", "U+1F23">>, <<"U+1F2C", "U+1F24">>,
     <<"U+1F2D", "U+1F25">>, <<"U+1F2E", "U+1F26">>,
     <<"U+1F2F", "U+1F27">>, <<"U+1F38", "U+1F30">>,
     <<"U+1F39", "U+1F31">>, <<"U+1F3A", "U+1F32">>,
     <<"U+1F3B", "U+1F33">>, <<"U+1F3C", "U+1F34">>,
     <<"U+1F3D", "U+1F35">>, <<"U+1F3E", "U+1F36">>,
     <<"U+1F3F", "U+1F37">>, <<"U+1F48", "U+1F40">>,
     <<"U+1F49", "U+1F41">>, <<"U+1F4A", "U+1F42">>,
     <<"U+1F4B", "U+1F43">>, <<"U+1F4C", "U+1F44">>,
     <<"U+1F4D", "U+1F45">>, <<"U+1F59", "U+1F51">>,
     <<"U+1F5B", "U+1F53">>, <<"U+1F5D", "U+1F55">>,
     <<"U+1F5F", "U+1F57">>, <<"U+1F68", "U+1F60">>,
     <<"U+1F69", "U+1F61">>, <<"U+1F6A", "U+1F62">>,
     <<"U+1F6B", "U+1F63">>, <<"U+1F6C", "U+1F64">>,
     <<"U+1F6D", "U+1F65">>, <<"U+1F6E", "U+1F66">>,
     <<"U+1F6F", "U+1F67">>, <<"ᾈ", "ᾀ">>, <<"ᾉ", "ᾁ">>, <<"ᾊ", "ᾂ">>,
     <<"ᾋ", "ᾃ">>, <<"ᾌ", "ᾄ">>, <<"ᾍ", "ᾅ">>, <<"ᾎ", "ᾆ">>, <<"ᾏ", "ᾇ">>,
     <<"ᾘ", "ᾐ">>, <<"ᾙ", "ᾑ">>, <<"ᾚ", "ᾒ">>, <<"ᾛ", "ᾓ">>, <<"ᾜ", "ᾔ">>,
     <<"ᾝ", "ᾕ">>, <<"ᾞ", "ᾖ">>, <<"ᾟ", "ᾗ">>, <<"ᾨ", "ᾠ">>, <<"ᾩ", "ᾡ">>,
     <<"ᾪ", "ᾢ">>, <<"ᾫ", "ᾣ">>, <<"ᾬ", "ᾤ">>, <<"ᾭ", "ᾥ">>, <<"ᾮ", "ᾦ">>,
     <<"ᾯ", "ᾧ">>, <<"Ᾰ", "ᾰ">>, <<"Ᾱ", "ᾱ">>, <<"Ὰ", "U+1F70">>,
     <<"Ά", "U+1F71">>, <<"ᾼ", "ᾳ">>, <<"Ὲ", "U+1F72">>, <<"Έ", "U+1F73">>,
     <<"Ὴ", "U+1F74">>, <<"Ή", "U+1F75">>, <<"ῌ", "ῃ">>, <<"Ῐ", "ῐ">>,
     <<"Ῑ", "ῑ">>, <<"Ὶ", "U+1F76">>, <<"Ί", "U+1F77">>, <<"Ῠ", "ῠ">>,
     <<"Ῡ", "ῡ">>, <<"Ὺ", "U+1F7A">>, <<"Ύ", "U+1F7B">>, <<"Ῥ", "ῥ">>,
     <<"Ὸ", "U+1F78">>, <<"Ό", "U+1F79">>, <<"Ὼ", "U+1F7C">>,
     <<"Ώ", "U+1F7D">>, <<"ῼ", "ῳ">>, <<"U+2126", "ω">>, <<"U+212A", "k">>,
     <<"U+212B", "å">>, <<"U+2132", "U+214E">>, <<"U+2160", "U+2170">>,
     <<"U+2161", "U+2171">>, <<"U+2162", "U+2172">>,
     <<"U+2163", "U+2173">>, <<"U+2164", "U+2174">>,
     <<"U+2165", "U+2175">>, <<"U+2166", "U+2176">>,
     <<"U+2167", "U+2177">>, <<"U+2168", "U+2178">>,
     <<"U+2169", "U+2179">>, <<"U+216A", "U+217A">>,
     <<"U+216B", "U+217B">>, <<"U+216C", "U+217C">>,
     <<"U+216D", "U+217D">>, <<"U+216E", "U+217E">>,
     <<"U+216F", "U+217F">>, <<"Ↄ", "ↄ">>, <<"Ⓐ", "ⓐ">>, <<"Ⓑ", "ⓑ">>,
     <<"Ⓒ", "ⓒ">>, <<"Ⓓ", "ⓓ">>, <<"Ⓔ", "ⓔ">>, <<"Ⓕ", "ⓕ">>, <<"Ⓖ", "ⓖ">>,
     <<"Ⓗ", "ⓗ">>, <<"Ⓘ", "ⓘ">>, <<"Ⓙ", "ⓙ">>, <<"Ⓚ", "ⓚ">>, <<"Ⓛ", "ⓛ">>,
     <<"Ⓜ", "ⓜ">>, <<"Ⓝ", "ⓝ">>, <<"Ⓞ", "ⓞ">>, <<"Ⓟ", "ⓟ">>, <<"Ⓠ", "ⓠ">>,
     <<"Ⓡ", "ⓡ">>, <<"Ⓢ", "ⓢ">>, <<"Ⓣ", "ⓣ">>, <<"Ⓤ", "ⓤ">>, <<"Ⓥ", "ⓥ">>,
     <<"Ⓦ", "ⓦ">>, <<"Ⓧ", "ⓧ">>, <<"Ⓨ", "ⓨ">>, <<"Ⓩ", "ⓩ">>,
     <<"U+2C00", "U+2C30">>, <<"U+2C01", "U+2C31">>,
     <<"U+2C02", "U+2C32">>, <<"U+2C03", "U+2C33">>,
     <<"U+2C04", "U+2C34">>, <<"U+2C05", "U+2C35">>,
     <<"U+2C06", "U+2C36">>, <<"U+2C07", "U+2C37">>,
     <<"U+2C08", "U+2C38">>, <<"U+2C09", "U+2C39">>,
     <<"U+2C0A", "U+2C3A">>, <<"U+2C0B", "U+2C3B">>,
     <<"U+2C0C", "U+2C3C">>, <<"U+2C0D", "U+2C3D">>,
     <<"U+2C0E", "U+2C3E">>, <<"U+2C0F", "U+2C3F">>,
     <<"U+2C10", "U+2C40">>, <<"U+2C11", "U+2C41">>,
     <<"U+2C12", "U+2C42">>, <<"U+2C13", "U+2C43">>,
     <<"U+2C14", "U+2C44">>, <<"U+2C15", "U+2C45">>,
     <<"U+2C16", "U+2C46">>, <<"U+2C17", "U+2C47">>,
     <<"U+2C18", "U+2C48">>, <<"U+2C19", "U+2C49">>,
     <<"U+2C1A", "U+2C4A">>, <<"U+2C1B", "U+2C4B">>,
     <<"U+2C1C", "U+2C4C">>, <<"U+2C1D", "U+2C4D">>,
     <<"U+2C1E", "U+2C4E">>, <<"U+2C1F", "U+2C4F">>,
     <<"U+2C20", "U+2C50">>, <<"U+2C21", "U+2C51">>,
     <<"U+2C22", "U+2C52">>, <<"U+2C23", "U+2C53">>,
     <<"U+2C24", "U+2C54">>, <<"U+2C25", "U+2C55">>,
     <<"U+2C26", "U+2C56">>, <<"U+2C27", "U+2C57">>,
     <<"U+2C28", "U+2C58">>, <<"U+2C29", "U+2C59">>,
     <<"U+2C2A", "U+2C5A">>, <<"U+2C2B", "U+2C5B">>,
     <<"U+2C2C", "U+2C5C">>, <<"U+2C2D", "U+2C5D">>,
     <<"U+2C2E", "U+2C5E">>, <<"U+2C2F", "U+2C5F">>,
     <<"U+2C60", "U+2C61">>, <<"U+2C62", "U+026B">>,
     <<"U+2C63", "U+1D7D">>, <<"U+2C64", "U+027D">>,
     <<"U+2C67", "U+2C68">>, <<"U+2C69", "U+2C6A">>,
     <<"U+2C6B", "U+2C6C">>, <<"U+2C6D", "U+0251">>,
     <<"U+2C6E", "U+0271">>, <<"U+2C6F", "U+0250">>,
     <<"U+2C70", "U+0252">>, <<"U+2C72", "U+2C73">>,
     <<"U+2C75", "U+2C76">>, <<"U+2C7E", "U+023F">>,
     <<"U+2C7F", "U+0240">>, <<"Ⲁ", "ⲁ">>, <<"Ⲃ", "ⲃ">>, <<"Ⲅ", "ⲅ">>,
     <<"Ⲇ", "ⲇ">>, <<"Ⲉ", "ⲉ">>, <<"Ⲋ", "ⲋ">>, <<"Ⲍ", "ⲍ">>, <<"Ⲏ", "ⲏ">>,
     <<"Ⲑ", "ⲑ">>, <<"Ⲓ", "ⲓ">>, <<"Ⲕ", "ⲕ">>, <<"Ⲗ", "ⲗ">>, <<"Ⲙ", "ⲙ">>,
     <<"Ⲛ", "ⲛ">>, <<"Ⲝ", "ⲝ">>, <<"Ⲟ", "ⲟ">>, <<"Ⲡ", "ⲡ">>, <<"Ⲣ", "ⲣ">>,
     <<"Ⲥ", "ⲥ">>, <<"Ⲧ", "ⲧ">>, <<"Ⲩ", "ⲩ">>, <<"Ⲫ", "ⲫ">>, <<"Ⲭ", "ⲭ">>,
     <<"Ⲯ", "ⲯ">>, <<"Ⲱ", "ⲱ">>, <<"Ⲳ", "ⲳ">>, <<"Ⲵ", "ⲵ">>, <<"Ⲷ", "ⲷ">>,
     <<"Ⲹ", "ⲹ">>, <<"Ⲻ", "ⲻ">>, <<"Ⲽ", "ⲽ">>, <<"Ⲿ", "ⲿ">>, <<"Ⳁ", "ⳁ">>,
     <<"Ⳃ", "ⳃ">>, <<"Ⳅ", "ⳅ">>, <<"Ⳇ", "ⳇ">>, <<"Ⳉ", "ⳉ">>, <<"Ⳋ", "ⳋ">>,
     <<"Ⳍ", "ⳍ">>, <<"Ⳏ", "ⳏ">>, <<"Ⳑ", "ⳑ">>, <<"Ⳓ", "ⳓ">>, <<"Ⳕ", "ⳕ">>,
     <<"Ⳗ", "ⳗ">>, <<"Ⳙ", "ⳙ">>, <<"Ⳛ", "ⳛ">>, <<"Ⳝ", "ⳝ">>, <<"Ⳟ", "ⳟ">>,
     <<"Ⳡ", "ⳡ">>, <<"Ⳣ", "ⳣ">>, <<"Ⳬ", "ⳬ">>, <<"Ⳮ", "ⳮ">>, <<"Ⳳ", "ⳳ">>,
     <<"U+A640", "U+A641">>, <<"U+A642", "U+A643">>,
     <<"U+A644", "U+A645">>, <<"U+A646", "U+A647">>,
     <<"U+A648", "U+A649">>, <<"U+A64A", "U+A64B">>,
     <<"U+A64C", "U+A64D">>, <<"U+A64E", "U+A64F">>,
     <<"U+A650", "U+A651">>, <<"U+A652", "U+A653">>,
     <<"U+A654", "U+A655">>, <<"U+A656", "U+A657">>,
     <<"U+A658", "U+A659">>, <<"U+A65A", "U+A65B">>,
     <<"U+A65C", "U+A65D">>, <<"U+A65E", "U+A65F">>,
     <<"U+A660", "U+A661">>, <<"U+A662", "U+A663">>,
     <<"U+A664", "U+A665">>, <<"U+A666", "U+A667">>,
     <<"U+A668", "U+A669">>, <<"U+A66A", "U+A66B">>,
     <<"U+A66C", "U+A66D">>, <<"Ꚁ", "ꚁ">>, <<"Ꚃ", "ꚃ">>, <<"Ꚅ", "ꚅ">>,
     <<"Ꚇ", "ꚇ">>, <<"Ꚉ", "ꚉ">>, <<"Ꚋ", "ꚋ">>, <<"Ꚍ", "ꚍ">>, <<"Ꚏ", "ꚏ">>,
     <<"Ꚑ", "ꚑ">>, <<"Ꚓ", "ꚓ">>, <<"Ꚕ", "ꚕ">>, <<"Ꚗ", "ꚗ">>, <<"Ꚙ", "ꚙ">>,
     <<"Ꚛ", "ꚛ">>, <<"U+A722", "U+A723">>, <<"U+A724", "U+A725">>,
     <<"U+A726", "U+A727">>, <<"U+A728", "U+A729">>,
     <<"U+A72A", "U+A72B">>, <<"U+A72C", "U+A72D">>,
     <<"U+A72E", "U+A72F">>, <<"U+A732", "U+A733">>,
     <<"U+A734", "U+A735">>, <<"U+A736", "U+A737">>,
     <<"U+A738", "U+A739">>, <<"U+A73A", "U+A73B">>,
     <<"U+A73C", "U+A73D">>, <<"U+A73E", "U+A73F">>,
     <<"U+A740", "U+A741">>, <<"U+A742", "U+A743">>,
     <<"U+A744", "U+A745">>, <<"U+A746", "U+A747">>,
     <<"U+A748", "U+A749">>, <<"U+A74A", "U+A74B">>,
     <<"U+A74C", "U+A74D">>, <<"U+A74E", "U+A74F">>,
     <<"U+A750", "U+A751">>, <<"U+A752", "U+A753">>,
     <<"U+A754", "U+A755">>, <<"U+A756", "U+A757">>,
     <<"U+A758", "U+A759">>, <<"U+A75A", "U+A75B">>,
     <<"U+A75C", "U+A75D">>, <<"U+A75E", "U+A75F">>,
     <<"U+A760", "U+A761">>, <<"U+A762", "U+A763">>,
     <<"U+A764", "U+A765">>, <<"U+A766", "U+A767">>,
     <<"U+A768", "U+A769">>, <<"U+A76A", "U+A76B">>,
     <<"U+A76C", "U+A76D">>, <<"U+A76E", "U+A76F">>,
     <<"U+A779", "U+A77A">>, <<"U+A77B", "U+A77C">>,
     <<"U+A77D", "U+1D79">>, <<"U+A77E", "U+A77F">>, <<"Ꞁ", "ꞁ">>,
     <<"Ꞃ", "ꞃ">>, <<"Ꞅ", "ꞅ">>, <<"Ꞇ", "ꞇ">>, <<"Ꞌ", "ꞌ">>,
     <<"Ɥ", "U+0265">>, <<"Ꞑ", "ꞑ">>, <<"Ꞓ", "ꞓ">>, <<"Ꞗ", "ꞗ">>,
     <<"Ꞙ", "ꞙ">>, <<"Ꞛ", "ꞛ">>, <<"Ꞝ", "ꞝ">>, <<"Ꞟ", "ꞟ">>, <<"Ꞡ", "ꞡ">>,
     <<"Ꞣ", "ꞣ">>, <<"Ꞥ", "ꞥ">>, <<"Ꞧ", "ꞧ">>, <<"Ꞩ", "ꞩ">>,
     <<"Ɦ", "U+0266">>, <<"Ɜ", "U+025C">>, <<"Ɡ", "U+0261">>,
     <<"Ɬ", "U+026C">>, <<"Ɪ", "U+026A">>, <<"Ʞ", "ʞ">>, <<"Ʇ", "ʇ">>,
     <<"Ʝ", "ʝ">>, <<"Ꭓ", "U+AB53">>, <<"Ꞵ", "ꞵ">>, <<"Ꞷ", "ꞷ">>,
     <<"Ꞹ", "ꞹ">>, <<"Ꞻ", "ꞻ">>, <<"Ꞽ", "ꞽ">>, <<"Ꞿ", "ꞿ">>, <<"Ꟁ", "ꟁ">>,
     <<"Ꟃ", "ꟃ">>, <<"Ꞔ", "ꞔ">>, <<"Ʂ", "ʂ">>, <<"Ᶎ", "ᶎ">>, <<"Ꟈ", "ꟈ">>,
     <<"Ꟊ", "ꟊ">>, <<"Ꟑ", "ꟑ">>, <<"Ꟗ", "ꟗ">>, <<"Ꟙ", "ꟙ">>, <<"Ꟶ", "ꟶ">>,
     <<"U+FF21", "U+FF41">>, <<"U+FF22", "U+FF42">>,
     <<"U+FF23", "U+FF43">>, <<"U+FF24", "U+FF44">>,
     <<"U+FF25", "U+FF45">>, <<"U+FF26", "U+FF46">>,
     <<"U+FF27", "U+FF47">>, <<"U+FF28", "U+FF48">>,
     <<"U+FF29", "U+FF49">>, <<"U+FF2A", "U+FF4A">>,
     <<"U+FF2B", "U+FF4B">>, <<"U+FF2C", "U+FF4C">>,
     <<"U+FF2D", "U+FF4D">>, <<"U+FF2E", "U+FF4E">>,
     <<"U+FF2F", "U+FF4F">>, <<"U+FF30", "U+FF50">>,
     <<"U+FF31", "U+FF51">>, <<"U+FF32", "U+FF52">>,
     <<"U+FF33", "U+FF53">>, <<"U+FF34", "U+FF54">>,
     <<"U+FF35", "U+FF55">>, <<"U+FF36", "U+FF56">>,
     <<"U+FF37", "U+FF57">>, <<"U+FF38", "U+FF58">>,
     <<"U+FF39", "U+FF59">>, <<"U+FF3A", "U+FF5A">>,
     <<"U+10400", "U+10428">>, <<"U+10401", "U+10429">>,
     <<"U+10402", "U+1042A">>, <<"U+10403", "U+1042B">>,
     <<"U+10404", "U+1042C">>, <<"U+10405", "U+1042D">>,
     <<"U+10406", "U+1042E">>, <<"U+10407", "U+1042F">>,
     <<"U+10408", "U+10430">>, <<"U+10409", "U+10431">>,
     <<"U+1040A", "U+10432">>, <<"U+1040B", "U+10433">>,
     <<"U+1040C", "U+10434">>, <<"U+1040D", "U+10435">>,
     <<"U+1040E", "U+10436">>, <<"U+1040F", "U+10437">>,
     <<"U+10410", "U+10438">>, <<"U+10411", "U+10439">>,
     <<"U+10412", "U+1043A">>, <<"U+10413", "U+1043B">>,
     <<"U+10414", "U+1043C">>, <<"U+10415", "U+1043D">>,
     <<"U+10416", "U+1043E">>, <<"U+10417", "U+1043F">>,
     <<"U+10418", "U+10440">>, <<"U+10419", "U+10441">>,
     <<"U+1041A", "U+10442">>, <<"U+1041B", "U+10443">>,
     <<"U+1041C", "U+10444">>, <<"U+1041D", "U+10445">>,
     <<"U+1041E", "U+10446">>, <<"U+1041F", "U+10447">>,
     <<"U+10420", "U+10448">>, <<"U+10421", "U+10449">>,
     <<"U+10422", "U+1044A">>, <<"U+10423", "U+1044B">>,
     <<"U+10424", "U+1044C">>, <<"U+10425", "U+1044D">>,
     <<"U+10426", "U+1044E">>, <<"U+10427", "U+1044F">>,
     <<"U+104B0", "U+104D8">>, <<"U+104B1", "U+104D9">>,
     <<"U+104B2", "U+104DA">>, <<"U+104B3", "U+104DB">>,
     <<"U+104B4", "U+104DC">>, <<"U+104B5", "U+104DD">>,
     <<"U+104B6", "U+104DE">>, <<"U+104B7", "U+104DF">>,
     <<"U+104B8", "U+104E0">>, <<"U+104B9", "U+104E1">>,
     <<"U+104BA", "U+104E2">>, <<"U+104BB", "U+104E3">>,
     <<"U+104BC", "U+104E4">>, <<"U+104BD", "U+104E5">>,
     <<"U+104BE", "U+104E6">>, <<"U+104BF", "U+104E7">>,
     <<"U+104C0", "U+104E8">>, <<"U+104C1", "U+104E9">>,
     <<"U+104C2", "U+104EA">>, <<"U+104C3", "U+104EB">>,
     <<"U+104C4", "U+104EC">>, <<"U+104C5", "U+104ED">>,
     <<"U+104C6", "U+104EE">>, <<"U+104C7", "U+104EF">>,
     <<"U+104C8", "U+104F0">>, <<"U+104C9", "U+104F1">>,
     <<"U+104CA", "U+104F2">>, <<"U+104CB", "U+104F3">>,
     <<"U+104CC", "U+104F4">>, <<"U+104CD", "U+104F5">>,
     <<"U+104CE", "U+104F6">>, <<"U+104CF", "U+104F7">>,
     <<"U+104D0", "U+104F8">>, <<"U+104D1", "U+104F9">>,
     <<"U+104D2", "U+104FA">>, <<"U+104D3", "U+104FB">>,
     <<"U+10570", "U+10597">>, <<"U+10571", "U+10598">>,
     <<"U+10572", "U+10599">>, <<"U+10573", "U+1059A">>,
     <<"U+10574", "U+1059B">>, <<"U+10575", "U+1059C">>,
     <<"U+10576", "U+1059D">>, <<"U+10577", "U+1059E">>,
     <<"U+10578", "U+1059F">>, <<"U+10579", "U+105A0">>,
     <<"U+1057A", "U+105A1">>, <<"U+1057C", "U+105A3">>,
     <<"U+1057D", "U+105A4">>, <<"U+1057E", "U+105A5">>,
     <<"U+1057F", "U+105A6">>, <<"U+10580", "U+105A7">>,
     <<"U+10581", "U+105A8">>, <<"U+10582", "U+105A9">>,
     <<"U+10583", "U+105AA">>, <<"U+10584", "U+105AB">>,
     <<"U+10585", "U+105AC">>, <<"U+10586", "U+105AD">>,
     <<"U+10587", "U+105AE">>, <<"U+10588", "U+105AF">>,
     <<"U+10589", "U+105B0">>, <<"U+1058A", "U+105B1">>,
     <<"U+1058C", "U+105B3">>, <<"U+1058D", "U+105B4">>,
     <<"U+1058E", "U+105B5">>, <<"U+1058F", "U+105B6">>,
     <<"U+10590", "U+105B7">>, <<"U+10591", "U+105B8">>,
     <<"U+10592", "U+105B9">>, <<"U+10594", "U+105BB">>,
     <<"U+10595", "U+105BC">>, <<"U+10C80", "U+10CC0">>,
     <<"U+10C81", "U+10CC1">>, <<"U+10C82", "U+10CC2">>,
     <<"U+10C83", "U+10CC3">>, <<"U+10C84", "U+10CC4">>,
     <<"U+10C85", "U+10CC5">>, <<"U+10C86", "U+10CC6">>,
     <<"U+10C87", "U+10CC7">>, <<"U+10C88", "U+10CC8">>,
     <<"U+10C89", "U+10CC9">>, <<"U+10C8A", "U+10CCA">>,
     <<"U+10C8B", "U+10CCB">>, <<"U+10C8C", "U+10CCC">>,
     <<"U+10C8D", "U+10CCD">>, <<"U+10C8E", "U+10CCE">>,
     <<"U+10C8F", "U+10CCF">>, <<"U+10C90", "U+10CD0">>,
     <<"U+10C91", "U+10CD1">>, <<"U+10C92", "U+10CD2">>,
     <<"U+10C93", "U+10CD3">>, <<"U+10C94", "U+10CD4">>,
     <<"U+10C95", "U+10CD5">>, <<"U+10C96", "U+10CD6">>,
     <<"U+10C97", "U+10CD7">>, <<"U+10C98", "U+10CD8">>,
     <<"U+10C99", "U+10CD9">>, <<"U+10C9A", "U+10CDA">>,
     <<"U+10C9B", "U+10CDB">>, <<"U+10C9C", "U+10CDC">>,
     <<"U+10C9D", "U+10CDD">>, <<"U+10C9E", "U+10CDE">>,
     <<"U+10C9F", "U+10CDF">>, <<"U+10CA0", "U+10CE0">>,
     <<"U+10CA1", "U+10CE1">>, <<"U+10CA2", "U+10CE2">>,
     <<"U+10CA3", "U+10CE3">>, <<"U+10CA4", "U+10CE4">>,
     <<"U+10CA5", "U+10CE5">>, <<"U+10CA6", "U+10CE6">>,
     <<"U+10CA7", "U+10CE7">>, <<"U+10CA8", "U+10CE8">>,
     <<"U+10CA9", "U+10CE9">>, <<"U+10CAA", "U+10CEA">>,
     <<"U+10CAB", "U+10CEB">>, <<"U+10CAC", "U+10CEC">>,
     <<"U+10CAD", "U+10CED">>, <<"U+10CAE", "U+10CEE">>,
     <<"U+10CAF", "U+10CEF">>, <<"U+10CB0", "U+10CF0">>,
     <<"U+10CB1", "U+10CF1">>, <<"U+10CB2", "U+10CF2">>,
     <<"U+118A0", "U+118C0">>, <<"U+118A1", "U+118C1">>,
     <<"U+118A2", "U+118C2">>, <<"U+118A3", "U+118C3">>,
     <<"U+118A4", "U+118C4">>, <<"U+118A5", "U+118C5">>,
     <<"U+118A6", "U+118C6">>, <<"U+118A7", "U+118C7">>,
     <<"U+118A8", "U+118C8">>, <<"U+118A9", "U+118C9">>,
     <<"U+118AA", "U+118CA">>, <<"U+118AB", "U+118CB">>,
     <<"U+118AC", "U+118CC">>, <<"U+118AD", "U+118CD">>,
     <<"U+118AE", "U+118CE">>, <<"U+118AF", "U+118CF">>,
     <<"U+118B0", "U+118D0">>, <<"U+118B1", "U+118D1">>,
     <<"U+118B2", "U+118D2">>, <<"U+118B3", "U+118D3">>,
     <<"U+118B4", "U+118D4">>, <<"U+118B5", "U+118D5">>,
     <<"U+118B6", "U+118D6">>, <<"U+118B7", "U+118D7">>,
     <<"U+118B8", "U+118D8">>, <<"U+118B9", "U+118D9">>,
     <<"U+118BA", "U+118DA">>, <<"U+118BB", "U+118DB">>,
     <<"U+118BC", "U+118DC">>, <<"U+118BD", "U+118DD">>,
     <<"U+118BE", "U+118DE">>, <<"U+118BF", "U+118DF">>,
     <<"U+16E40", "U+16E60">>, <<"U+16E41", "U+16E61">>,
     <<"U+16E42", "U+16E62">>, <<"U+16E43", "U+16E63">>,
     <<"U+16E44", "U+16E64">>, <<"U+16E45", "U+16E65">>,
     <<"U+16E46", "U+16E66">>, <<"U+16E47", "U+16E67">>,
     <<"U+16E48", "U+16E68">>, <<"U+16E49", "U+16E69">>,
     <<"U+16E4A", "U+16E6A">>, <<"U+16E4B", "U+16E6B">>,
     <<"U+16E4C", "U+16E6C">>, <<"U+16E4D", "U+16E6D">>,
     <<"U+16E4E", "U+16E6E">>, <<"U+16E4F", "U+16E6F">>,
     <<"U+16E50", "U+16E70">>, <<"U+16E51", "U+16E71">>,
     <<"U+16E52", "U+16E72">>, <<"U+16E53", "U+16E73">>,
     <<"U+16E54", "U+16E74">>, <<"U+16E55", "U+16E75">>,
     <<"U+16E56", "U+16E76">>, <<"U+16E57", "U+16E77">>,
     <<"U+16E58", "U+16E78">>, <<"U+16E59", "U+16E79">>,
     <<"U+16E5A", "U+16E7A">>, <<"U+16E5B", "U+16E7B">>,
     <<"U+16E5C", "U+16E7C">>, <<"U+16E5D", "U+16E7D">>,
     <<"U+16E5E", "U+16E7E">>, <<"U+16E5F", "U+16E7F">>,
     <<"U+1E900", "U+1E922">>, <<"U+1E901", "U+1E923">>,
     <<"U+1E902", "U+1E924">>, <<"U+1E903", "U+1E925">>,
     <<"U+1E904", "U+1E926">>, <<"U+1E905", "U+1E927">>,
     <<"U+1E906", "U+1E928">>, <<"U+1E907", "U+1E929">>,
     <<"U+1E908", "U+1E92A">>, <<"U+1E909", "U+1E92B">>,
     <<"U+1E90A", "U+1E92C">>, <<"U+1E90B", "U+1E92D">>,
     <<"U+1E90C", "U+1E92E">>, <<"U+1E90D", "U+1E92F">>,
     <<"U+1E90E", "U+1E930">>, <<"U+1E90F", "U+1E931">>,
     <<"U+1E910", "U+1E932">>, <<"U+1E911", "U+1E933">>,
     <<"U+1E912", "U+1E934">>, <<"U+1E913", "U+1E935">>,
     <<"U+1E914", "U+1E936">>, <<"U+1E915", "U+1E937">>,
     <<"U+1E916", "U+1E938">>, <<"U+1E917", "U+1E939">>,
     <<"U+1E918", "U+1E93A">>, <<"U+1E919", "U+1E93B">>,
     <<"U+1E91A", "U+1E93C">>, <<"U+1E91B", "U+1E93D">>,
     <<"U+1E91C", "U+1E93E">>, <<"U+1E91D", "U+1E93F">>,
     <<"U+1E91E", "U+1E940">>, <<"U+1E91F", "U+1E941">>,
     <<"U+1E920", "U+1E942">>, <<"U+1E921", "U+1E943">>}

UpperToLower ==
    [c \in {p[1] : p \in LowerPairs} |->
        (CHOOSE p \in LowerPairs : p[1] = c)[2]]

\* The characters str.lower() looks through when it places a final sigma
\* (_PyUnicode_IsCaseIgnorable)
CaseIgnorable ==
    {"'", ".", ":", "^", "U+0060", "¨", "­", "¯", "´", "·", "¸", "ʰ", "ʱ",
     "ʲ", "ʳ", "ʴ", "ʵ", "ʶ", "ʷ", "ʸ", "ʹ", "ʺ", "ʻ", "ʼ", "ʽ", "ʾ", "ʿ",
     "ˀ", "ˁ", "˂", "˃", "˄", "˅", "ˆ", "ˇ", "ˈ", "ˉ", "ˊ", "ˋ", "ˌ", "ˍ",
     "ˎ", "ˏ", "ː", "ˑ", "˒", "˓", "˔", "˕", "˖", "˗", "˘", "˙", "˚", "˛",
     "˜", "˝", "˞", "˟", "ˠ", "ˡ", "ˢ", "ˣ", "ˤ", "˥", "˦", "˧", "˨", "˩",
     "˪", "˫", "ˬ", "˭", "ˮ", "˯", "˰", "˱", "˲", "˳", "˴", "˵", "˶", "˷",
     "˸", "˹", "˺", "˻", "˼", "˽", "˾", "˿", "U+0300", "U+0301", "U+0302",
     "U+0303", "U+0304", "U+0305", "U+0306", "U+0307", "U+0308", "U+0309",
     "U+030A", "U+030B", "U+030C", "U+030D", "U+030E", "U+030F", "U+0310",
     "U+0311", "U+0312", "U+0313", "U+0314", "U+0315", "U+0316", "U+0317",
     "U+0318", "U+0319", "U+031A", "U+031B", "U+031C", "U+031D", "U+031E",
     "U+031F", "U+0320", "U+0321", "U+0322", "U+0323", "U+0324", "U+0325",
     "U+0326", "U+0327", "U+0328", "U+0329", "U+032A", "U+032B", "U+032C",
     "U+032D", "U+032E", "U+032F", "U+0330", "U+0331", "U+0332", "U+0333",
     "U+0334", "U+0335", "U+0336", "U+0337", "U+0338", "U+0339", "U+033A",
     "U+033B", "U+033C", "U+033D", "U+033E", "U+033F", "U+0340", "U+0341",
     "U+0342", "U+0343", "U+0344", "U+0345", "U+0346", "U+0347", "U+0348",
     "U+0349", "U+034A", "U+034B", "U+034C", "U+034D", "U+034E", "U+034F",
     "U+0350", "U+0351", "U+0352", "U+0353", "U+0354", "U+0355", "U+0356",
     "U+0357", "U+0358", "U+0359", "U+035A", "U+035B", "U+035C", "U+035D",
     "U+035E", "U+035F", "U+0360", "U+0361", "U+0362", "U+0363", "U+0364",
     "U+0365", "U+0366", "U+0367", "U+0368", "U+0369", "U+036A", "U+036B",
     "U+036C", "U+036D", "U+036E", "U+036F", "U+0374", "U+0375", "U+037A",
     "΄", "΅", "·", "҃", "҄", "҅", "҆", "҇", "҈", "҉", "U+0559", "U+055F",
     "֑", "֒", "֓", "֔", "֕", "֖", "֗", "֘", "֙", "֚", "֛", "֜", "֝", "֞",
     "֟", "֠", "֡", "֢", "֣", "֤", "֥", "֦", "֧", "֨", "֩", "֪", "֫", "֬",
     "֭", "֮", "֯", "ְ", "ֱ", "ֲ", "ֳ", "ִ", "ֵ", "ֶ", "ַ", "ָ", "ֹ", "ֺ",
     "ֻ", "ּ", "ֽ", "ֿ", "ׁ", "ׂ", "ׄ", "ׅ", "ׇ", "״", "U+0600", "U+0601",
     "U+0602", "U+0603", "U+0604", "U+0605", "U+0610", "U+0611", "U+0612",
     "U+0613", "U+0614", "U+0615", "U+0616", "U+0617", "U+0618", "U+0619",
     "U+061A", "U+061C", "U+0640", "U+064B", "U+064C", "U+064D", "U+064E",
     "U+064F", "U+0650", "U+0651", "U+0652", "U+0653", "U+0654", "U+0655",
     "U+0656", "U+0657", "U+0658", "U+0659", "U+065A", "U+065B", "U+065C",
     "U+065D", "U+065E", "U+065F", "U+0670", "ۖ", "ۗ", "ۘ", "ۙ", "ۚ", "ۛ",
     "ۜ", "۝", "۟", "۠", "ۡ", "ۢ", "ۣ", "ۤ", "ۥ", "ۦ", "ۧ", "ۨ", "۪", "۫",
     "۬", "ۭ", "U+070F", "U+0711", "U+0730", "U+0731", "U+0732", "U+0733",
     "U+0734", "U+0735", "U+0736", "U+0737", "U+0738", "U+0739", "U+073A",
     "U+073B", "U+073C", "U+073D", "U+073E", "U+073F", "U+0740", "U+0741",
     "U+0742", "U+0743", "U+0744", "U+0745", "U+0746", "U+0747", "U+0748",
     "U+0749", "U+074A", "ަ", "ާ", "ި", "ީ", "ު", "ޫ", "ެ", "ޭ", "ޮ", "ޯ",
     "ް", "߫", "߬", "߭", "߮", "߯", "߰", "߱", "߲", "߳", "ߴ", "ߵ", "ߺ", "߽",
     "U+0816", "U+0817", "U+0818", "U+0819", "U+081A", "U+081B", "U+081C",
     "U+081D", "U+081E", "U+081F", "U+0820", "U+0821", "U+0822", "U+0823",
     "U+0824", "U+0825", "U+0826", "U+0827", "U+0828", "U+0829", "U+082A",
     "U+082B", "U+082C", "U+082D", "U+0859", "U+085A", "U+085B", "࢈", "࢐",
     "࢑", "࢘", "࢙", "࢚", "࢛", "࢜", "࢝", "࢞", "࢟", "ࣉ", "࣊", "࣋", "࣌", "࣍",
     "࣎", "࣏", "࣐", "࣑", "࣒", "࣓", "ࣔ", "ࣕ", "ࣖ", "ࣗ", "ࣘ", "ࣙ", "ࣚ", "ࣛ",
     "ࣜ", "ࣝ", "ࣞ", "ࣟ", "࣠", "࣡", "࣢", "ࣣ", "ࣤ", "ࣥ", "ࣦ", "ࣧ", "ࣨ", "ࣩ",
     "࣪", "࣫", "࣬", "࣭", "࣮", "࣯", "ࣰ", "ࣱ", "ࣲ", "ࣳ", "ࣴ", "ࣵ", "ࣶ", "ࣷ",
     "ࣸ", "ࣹ", "ࣺ", "ࣻ", "ࣼ", "ࣽ", "ࣾ", "ࣿ", "U+0900", "U+0901", "U+0902",
     "U+093A", "U+093C", "U+0941", "U+0942", "U+0943", "U+0944", "U+0945",
     "U+0946", "U+0947", "U+0948", "U+094D", "U+0951", "U+0952", "U+0953",
     "U+0954", "U+0955", "U+0956", "U+0957", "U+0962", "U+0963", "U+0971",
     "ঁ", "়", "ু", "ূ", "ৃ", "ৄ", "্", "ৢ", "ৣ", "৾", "U+0A01", "U+0A02",
     "U+0A3C", "U+0A41", "U+0A42", "U+0A47", "U+0A48", "U+0A4B", "U+0A4C",
     "U+0A4D", "U+0A51", "U+0A70", "U+0A71", "U+0A75", "ઁ", "ં", "઼", "ુ",
     "ૂ", "ૃ", "ૄ", "ૅ", "ે", "ૈ", "્", "ૢ", "ૣ", "ૺ", "ૻ", "ૼ", "૽", "૾",
     "૿", "U+0B01", "U+0B3C", "U+0B3F", "U+0B41", "U+0B42", "U+0B43",
     "U+0B44", "U+0B4D", "U+0B55", "U+0B56", "U+0B62", "U+0B63", "ஂ", "ீ",
     "்", "U+0C00", "U+0C04", "U+0C3C", "U+0C3E", "U+0C3F", "U+0C40",
     "U+0C46", "U+0C47", "U+0C48", "U+0C4A", "U+0C4B", "U+0C4C", "U+0C4D",
     "U+0C55", "U+0C56", "U+0C62", "U+0C63", "ಁ", "಼", "ಿ", "ೆ", "ೌ", "್",
     "ೢ", "ೣ", "U+0D00", "U+0D01", "U+0D3B", "U+0D3C", "U+0D41", "U+0D42",
     "U+0D43", "U+0D44", "U+0D4D", "U+0D62", "U+0D63", "ඁ", "්", "ි", "ී",
     "ු", "ූ", "U+0E31", "U+0E34", "U+0E35", "U+0E36", "U+0E37", "U+0E38",
     "U+0E39", "U+0E3A", "U+0E46", "U+0E47", "U+0E48", "U+0E49", "U+0E4A",
     "U+0E4B", "U+0E4C", "U+0E4D", "U+0E4E", "ັ", "ິ", "ີ", "ຶ", "ື", "ຸ",
     "ູ", "຺", "ົ", "ຼ", "ໆ", "່", "້", "໊", "໋", "໌", "ໍ", "U+0F18",
     "U+0F19", "U+0F35", "U+0F37", "U+0F39", "U+0F71", "U+0F72", "U+0F73",
     "U+0F74", "U+0F75", "U+0F76", "U+0F77", "U+0F78", "U+0F79", "U+0F7A",
     "U+0F7B", "U+0F7C", "U+0F7D", "U+0F7E", "ྀ", "ཱྀ", "ྂ", "ྃ", "྄", "྆",
     "྇", "ྍ", "ྎ", "ྏ", "ྐ", "ྑ", "ྒ", "ྒྷ", "ྔ", "ྕ", "ྖ", "ྗ", "ྙ", "ྚ",
     "ྛ", "ྜ", "ྜྷ", "ྞ", "ྟ", "ྠ", "ྡ", "ྡྷ", "ྣ", "ྤ", "ྥ", "ྦ", "ྦྷ", "ྨ",
     "ྩ", "ྪ", "ྫ", "ྫྷ", "ྭ", "ྮ", "ྯ", "ྰ", "ྱ", "ྲ", "ླ", "ྴ", "ྵ", "ྶ",
     "ྷ", "ྸ", "ྐྵ", "ྺ", "ྻ", "ྼ", "࿆", "U+102D", "U+102E", "U+102F",
     "U+1030", "U+1032", "U+1033", "U+1034", "U+1035", "U+1036", "U+1037",
     "U+1039", "U+103A", "U+103D", "U+103E", "U+1058", "U+1059", "U+105E",
     "U+105F", "U+1060", "U+1071", "U+1072", "U+1073", "U+1074", "ႂ", "ႅ",
     "ႆ", "ႍ", "ႝ", "ჼ", "U+135D", "U+135E", "U+135F", "U+1712", "U+1713",
     "U+1714", "U+1732", "U+1733", "U+1752", "U+1753", "U+1772", "U+1773",
     "឴", "឵", "ិ", "ី", "ឹ", "ឺ", "ុ", "ូ", "ួ", "ំ", "៉", "៊", "់", "៌",
     "៍", "៎", "៏", "័", "៑", "្", "៓", "ៗ", "៝", "U+180B", "U+180C",
     "U+180D", "U+180E", "U+180F", "U+1843", "ᢅ", "ᢆ", "ᢩ", "U+1920",
     "U+1921", "U+1922", "U+1927", "U+1928", "U+1932", "U+1939", "U+193A",
     "U+193B", "U+1A17", "U+1A18", "U+1A1B", "U+1A56", "U+1A58", "U+1A59",
     "U+1A5A", "U+1A5B", "U+1A5C", "U+1A5D", "U+1A5E", "U+1A60", "U+1A62",
     "U+1A65", "U+1A66", "U+1A67", "U+1A68", "U+1A69", "U+1A6A", "U+1A6B",
     "U+1A6C", "U+1A73", "U+1A74", "U+1A75", "U+1A76", "U+1A77", "U+1A78",
     "U+1A79", "U+1A7A", "U+1A7B", "U+1A7C", "U+1A7F", "ᪧ", "᪰", "᪱", "᪲",
     "᪳", "᪴", "᪵", "᪶", "᪷", "᪸", "᪹", "᪺", "᪻", "᪼", "᪽", "᪾", "ᪿ", "ᫀ",
     "᫁", "᫂", "᫃", "᫄", "᫅", "᫆", "᫇", "᫈", "᫉", "᫊", "᫋", "ᫌ", "ᫍ", "ᫎ",
     "U+1B00", "U+1B01", "U+1B02", "U+1B03", "U+1B34", "U+1B36", "U+1B37",
     "U+1B38", "U+1B39", "U+1B3A", "U+1B3C", "U+1B42", "U+1B6B", "U+1B6C",
     "U+1B6D", "U+1B6E", "U+1B6F", "U+1B70", "U+1B71", "U+1B72", "U+1B73",
     "ᮀ", "ᮁ", "ᮢ", "ᮣ", "ᮤ", "ᮥ", "ᮨ", "ᮩ", "᮫", "ᮬ", "ᮭ", "᯦", "ᯨ", "ᯩ",
     "ᯭ", "ᯯ", "ᯰ", "ᯱ", "U+1C2C", "U+1C2D", "U+1C2E", "U+1C2F", "U+1C30",
     "U+1C31", "U+1C32", "U+1C33", "U+1C36", "U+1C37", "U+1C78", "U+1C79",
     "U+1C7A", "U+1C7B", "U+1C7C", "U+1C7D", "᳐", "᳑", "᳒", "᳔", "᳕", "᳖",
     "᳗", "᳘", "᳙", "᳚", "᳛", "᳜", "᳝", "᳞", "᳟", "᳠", "᳢", "᳣", "᳤", "᳥",
     "᳦", "᳧", "᳨", "᳭", "᳴", "᳸", "᳹", "U+1D2C", "U+1D2D", "U+1D2E",
     "U+1D2F", "U+1D30", "U+1D31", "U+1D32", "U+1D33", "U+1D34", "U+1D35",
     "U+1D36", "U+1D37", "U+1D38", "U+1D39", "U+1D3A", "U+1D3B", "U+1D3C",
     "U+1D3D", "U+1D3E", "U+1D3F", "U+1D40", "U+1D41", "U+1D42", "U+1D43",
     "U+1D44", "U+1D45", "U+1D46", "U+1D47", "U+1D48", "U+1D49", "U+1D4A",
     "U+1D4B", "U+1D4C", "U+1D4D", "U+1D4E", "U+1D4F", "U+1D50", "U+1D51",
     "U+1D52", "U+1D53", "U+1D54", "U+1D55", "U+1D56", "U+1D57", "U+1D58",
     "U+1D59", "U+1D5A", "U+1D5B", "U+1D5C", "U+1D5D", "U+1D5E", "U+1D5F",
     "U+1D60", "U+1D61", "U+1D62", "U+1D63", "U+1D64", "U+1D65", "U+1D66",
     "U+1D67", "U+1D68", "U+1D69", "U+1D6A", "U+1D78", "ᶛ", "ᶜ", "ᶝ", "ᶞ",
     "ᶟ", "ᶠ", "ᶡ", "ᶢ", "ᶣ", "ᶤ", "ᶥ", "ᶦ", "ᶧ", "ᶨ", "ᶩ", "ᶪ", "ᶫ", "ᶬ",
     "ᶭ", "ᶮ", "ᶯ", "ᶰ", "ᶱ", "ᶲ", "ᶳ", "ᶴ", "ᶵ", "ᶶ", "ᶷ", "ᶸ", "ᶹ", "ᶺ",
     "ᶻ", "ᶼ", "ᶽ", "ᶾ", "ᶿ", "᷀", "᷁", "᷂", "᷃", "᷄", "᷅", "᷆", "᷇", "᷈",
     "᷉", "᷊", "᷋", "᷌", "᷍", "᷎", "᷏", "᷐", "᷑", "᷒", "ᷓ", "ᷔ", "ᷕ", "ᷖ",
     "ᷗ", "ᷘ", "ᷙ", "ᷚ", "ᷛ", "ᷜ", "ᷝ", "ᷞ", "ᷟ", "ᷠ", "ᷡ", "ᷢ", "ᷣ", "ᷤ",
     "ᷥ", "ᷦ", "ᷧ", "ᷨ", "ᷩ", "ᷪ", "ᷫ", "ᷬ", "ᷭ", "ᷮ", "ᷯ", "ᷰ", "ᷱ", "ᷲ",
     "ᷳ", "ᷴ", "᷵", "᷶", "᷷", "᷸", "᷹", "᷺", "᷻", "᷼", "᷽", "᷾", "᷿", "᾽",
     "᾿", "῀", "῁", "῍", "῎", "῏", "῝", "῞", "῟", "῭", "΅", "`", "´", "῾",
     "U+200B", "U+200C", "U+200D", "U+200E", "U+200F", "U+2018", "U+2019",
     "U+2024", "U+2027", "U+202A", "U+202B", "U+202C", "U+202D", "U+202E",
     "U+2060", "U+2061", "U+2062", "U+2063", "U+2064", "U+2066", "U+2067",
     "U+2068", "U+2069", "U+206A", "U+206B", "U+206C", "U+206D", "U+206E",
     "U+206F", "U+2071", "U+207F", "ₐ", "ₑ", "ₒ", "ₓ", "ₔ", "ₕ", "ₖ", "ₗ",
     "ₘ", "ₙ", "ₚ", "ₛ", "ₜ", "⃐", "⃑", "⃒", "⃓", "⃔", "⃕", "⃖", "⃗", "⃘",
     "⃙", "⃚", "⃛", "⃜", "⃝", "⃞", "⃟", "⃠", "⃡", "⃢", "⃣", "⃤", "⃥", "⃦",
     "⃧", "⃨", "⃩", "⃪", "⃫", "⃬", "⃭", "⃮", "⃯", "⃰", "U+2C7C", "U+2C7D",
     "⳯", "⳰", "⳱", "U+2D6F", "U+2D7F", "ⷠ", "ⷡ", "ⷢ", "ⷣ", "ⷤ", "ⷥ", "ⷦ",
     "ⷧ", "ⷨ", "ⷩ", "ⷪ", "ⷫ", "ⷬ", "ⷭ", "ⷮ", "ⷯ", "ⷰ", "ⷱ", "ⷲ", "ⷳ", "ⷴ",
     "ⷵ", "ⷶ", "ⷷ", "ⷸ", "ⷹ", "ⷺ", "ⷻ", "ⷼ", "ⷽ", "ⷾ", "ⷿ", "U+2E2F",
     "U+3005", "U+302A", "U+302B", "U+302C", "U+302D", "U+3031", "U+3032",
     "U+3033", "U+3034", "U+3035", "U+303B", "゙", "゚", "゛", "゜", "ゝ", "ゞ",
     "ー", "ヽ", "ヾ", "U+A015", "ꓸ", "ꓹ", "ꓺ", "ꓻ", "ꓼ", "ꓽ", "U+A60C",
     "U+A66F", "U+A670", "U+A671", "U+A672", "U+A674", "U+A675", "U+A676",
     "U+A677", "U+A678", "U+A679", "U+A67A", "U+A67B", "U+A67C", "U+A67D",
     "U+A67F", "ꚜ", "ꚝ", "ꚞ", "ꚟ", "꛰", "꛱", "U+A700", "U+A701", "U+A702",
     "U+A703", "U+A704", "U+A705", "U+A706", "U+A707", "U+A708", "U+A709",
     "U+A70A", "U+A70B", "U+A70C", "U+A70D", "U+A70E", "U+A70F", "U+A710",
     "U+A711", "U+A712", "U+A713", "U+A714", "U+A715", "U+A716", "U+A717",
     "U+A718", "U+A719", "U+A71A", "U+A71B", "U+A71C", "U+A71D", "U+A71E",
     "U+A71F", "U+A720", "U+A721", "U+A770", "ꞈ", "꞉", "꞊", "ꟲ", "ꟳ", "ꟴ",
     "ꟸ", "ꟹ", "U+A802", "U+A806", "U+A80B", "U+A825", "U+A826", "U+A82C",
     "꣄", "ꣅ", "꣠", "꣡", "꣢", "꣣", "꣤", "꣥", "꣦", "꣧", "꣨", "꣩", "꣪", "꣫",
     "꣬", "꣭", "꣮", "꣯", "꣰", "꣱", "ꣿ", "U+A926", "U+A927", "U+A928",
     "U+A929", "U+A92A", "U+A92B", "U+A92C", "U+A92D", "U+A947", "U+A948",
     "U+A949", "U+A94A", "U+A94B", "U+A94C", "U+A94D", "U+A94E", "U+A94F",
     "U+A950", "U+A951", "ꦀ", "ꦁ", "ꦂ", "꦳", "ꦶ", "ꦷ", "ꦸ", "ꦹ", "ꦼ", "ꦽ",
     "ꧏ", "ꧥ", "ꧦ", "U+AA29", "U+AA2A", "U+AA2B", "U+AA2C", "U+AA2D",
     "U+AA2E", "U+AA31", "U+AA32", "U+AA35", "U+AA36", "U+AA43", "U+AA4C",
     "U+AA70", "U+AA7C", "ꪰ", "ꪲ", "ꪳ", "ꪴ", "ꪷ", "ꪸ", "ꪾ", "꪿", "꫁", "ꫝ",
     "ꫬ", "ꫭ", "ꫳ", "ꫴ", "꫶", "U+AB5B", "U+AB5C", "U+AB5D", "U+AB5E",
     "U+AB5F", "U+AB69", "U+AB6A", "U+AB6B", "ꯥ", "ꯨ", "꯭", "U+FB1E", "﮲",
     "﮳", "﮴", "﮵", "﮶", "﮷", "﮸", "﮹", "﮺", "﮻", "﮼", "﮽", "﮾", "﮿", "﯀",
     "﯁", "﯂", "U+FE00", "U+FE01", "U+FE02", "U+FE03", "U+FE04", "U+FE05",
     "U+FE06", "U+FE07", "U+FE08", "U+FE09", "U+FE0A", "U+FE0B", "U+FE0C",
     "U+FE0D", "U+FE0E", "U+FE0F", "U+FE13", "U+FE20", "U+FE21", "U+FE22",
     "U+FE23", "U+FE24", "U+FE25", "U+FE26", "U+FE27", "U+FE28", "U+FE29",
     "U+FE2A", "U+FE2B", "U+FE2C", "U+FE2D", "U+FE2E", "U+FE2F", "U+FE52",
     "U+FE55", "﻿", "U+FF07", "U+FF0E", "U+FF1A", "U+FF3E", "U+FF40",
     "U+FF70", "ﾞ", "ﾟ", "￣", "￹", "￺", "￻", "U+101FD", "U+102E0",
     "U+10376", "U+10377", "U+10378", "U+10379", "U+1037A", "U+10780",
     "U+10781", "U+10782", "U+10783", "U+10784", "U+10785", "U+10787",
     "U+10788", "U+10789", "U+1078A", "U+1078B", "U+1078C", "U+1078D",
     "U+1078E", "U+1078F", "U+10790", "U+10791", "U+10792", "U+10793",
     "U+10794", "U+10795", "U+10796", "U+10797", "U+10798", "U+10799",
     "U+1079A", "U+1079B", "U+1079C", "U+1079D", "U+1079E", "U+1079F",
     "U+107A0", "U+107A1", "U+107A2", "U+107A3", "U+107A4", "U+107A5",
     "U+107A6", "U+107A7", "U+107A8", "U+107A9", "U+107AA", "U+107AB",
     "U+107AC", "U+107AD", "U+107AE", "U+107AF", "U+107B0", "U+107B2",
     "U+107B3", "U+107B4", "U+107B5", "U+107B6", "U+107B7", "U+107B8",
     "U+107B9", "U+107BA", "U+10A01", "U+10A02", "U+10A03", "U+10A05",
     "U+10A06", "U+10A0C", "U+10A0D", "U+10A0E", "U+10A0F", "U+10A38",
     "U+10A39", "U+10A3A", "U+10A3F", "U+10AE5", "U+10AE6", "U+10D24",
     "U+10D25", "U+10D26", "U+10D27", "U+10EAB", "U+10EAC", "U+10F46",
     "U+10F47", "U+10F48", "U+10F49", "U+10F4A", "U+10F4B", "U+10F4C",
     "U+10F4D", "U+10F4E", "U+10F4F", "U+10F50", "U+10F82", "U+10F83",
     "U+10F84", "U+10F85", "U+11001", "U+11038", "U+11039", "U+1103A",
     "U+1103B", "U+1103C", "U+1103D", "U+1103E", "U+1103F", "U+11040",
     "U+11041", "U+11042", "U+11043", "U+11044", "U+11045", "U+11046",
     "U+11070", "U+11073", "U+11074", "U+1107F", "U+11080", "U+11081",
     "U+110B3", "U+110B4", "U+110B5", "U+110B6", "U+110B9", "U+110BA",
     "U+110BD", "U+110C2", "U+110CD", "U+11100", "U+11101", "U+11102",
     "U+11127", "U+11128", "U+11129", "U+1112A", "U+1112B", "U+1112D",
     "U+1112E", "U+1112F", "U+11130", "U+11131", "U+11132", "U+11133",
     "U+11134", "U+11173", "U+11180", "U+11181", "U+111B6", "U+111B7",
     "U+111B8", "U+111B9", "U+111BA", "U+111BB", "U+111BC", "U+111BD",
     "U+111BE", "U+111C9", "U+111CA", "U+111CB", "U+111CC", "U+111CF",
     "U+1122F", "U+11230", "U+11231", "U+11234", "U+11236", "U+11237",
     "U+1123E", "U+112DF", "U+112E3", "U+112E4", "U+112E5", "U+112E6",
     "U+112E7", "U+112E8", "U+112E9", "U+112EA", "U+11300", "U+11301",
     "U+1133B", "U+1133C", "U+11340", "U+11366", "U+11367", "U+11368",
     "U+11369", "U+1136A", "U+1136B", "U+1136C", "U+11370", "U+11371",
     "U+11372", "U+11373", "U+11374", "U+11438", "U+11439", "U+1143A",
     "U+1143B", "U+1143C", "U+1143D", "U+1143E", "U+1143F", "U+11442",
     "U+11443", "U+11444", "U+11446", "U+1145E", "U+114B3", "U+114B4",
     "U+114B5", "U+114B6", "U+114B7", "U+114B8", "U+114BA", "U+114BF",
     "U+114C0", "U+114C2", "U+114C3", "U+115B2", "U+115B3", "U+115B4",
     "U+115B5", "U+115BC", "U+115BD", "U+115BF", "U+115C0", "U+115DC",
     "U+115DD", "U+11633", "U+11634", "U+11635", "U+11636", "U+11637",
     "U+11638", "U+11639", "U+1163A", "U+1163D", "U+1163F", "U+11640",
     "U+116AB", "U+116AD", "U+116B0", "U+116B1", "U+116B2", "U+116B3",
     "U+116B4", "U+116B5", "U+116B7", "U+1171D", "U+1171E", "U+1171F",
     "U+11722", "U+11723", "U+11724", "U+11725", "U+11727", "U+11728",
     "U+11729", "U+1172A", "U+1172B", "U+1182F", "U+11830", "U+11831",
     "U+11832", "U+11833", "U+11834", "U+11835", "U+11836", "U+11837",
     "U+11839", "U+1183A", "U+1193B", "U+1193C", "U+1193E", "U+11943",
     "U+119D4", "U+119D5", "U+119D6", "U+119D7", "U+119DA", "U+119DB",
     "U+119E0", "U+11A01", "U+11A02", "U+11A03", "U+11A04", "U+11A05",
     "U+11A06", "U+11A07", "U+11A08", "U+11A09", "U+11A0A", "U+11A33",
     "U+11A34", "U+11A35", "U+11A36", "U+11A37", "U+11A38", "U+11A3B",
     "U+11A3C", "U+11A3D", "U+11A3E", "U+11A47", "U+11A51", "U+11A52",
     "U+11A53", "U+11A54", "U+11A55", "U+11A56", "U+11A59", "U+11A5A",
     "U+11A5B", "U+11A8A", "U+11A8B", "U+11A8C", "U+11A8D", "U+11A8E",
     "U+11A8F", "U+11A90", "U+11A91", "U+11A92", "U+11A93", "U+11A94",
     "U+11A95", "U+11A96", "U+11A98", "U+11A99", "U+11C30", "U+11C31",
     "U+11C32", "U+11C33", "U+11C34", "U+11C35", "U+11C36", "U+11C38",
     "U+11C39", "U+11C3A", "U+11C3B", "U+11C3C", "U+11C3D", "U+11C3F",
     "U+11C92", "U+11C93", "U+11C94", "U+11C95", "U+11C96", "U+11C97",
     "U+11C98", "U+11C99", "U+11C9A", "U+11C9B", "U+11C9C", "U+11C9D",
     "U+11C9E", "U+11C9F", "U+11CA0", "U+11CA1", "U+11CA2", "U+11CA3",
     "U+11CA4", "U+11CA5", "U+11CA6", "U+11CA7", "U+11CAA", "U+11CAB",
     "U+11CAC", "U+11CAD", "U+11CAE", "U+11CAF", "U+11CB0", "U+11CB2",
     "U+11CB3", "U+11CB5", "U+11CB6", "U+11D31", "U+11D32", "U+11D33",
     "U+11D34", "U+11D35", "U+11D36", "U+11D3A", "U+11D3C", "U+11D3D",
     "U+11D3F", "U+11D40", "U+11D41", "U+11D42", "U+11D43", "U+11D44",
     "U+11D45", "U+11D47", "U+11D90", "U+11D91", "U+11D95", "U+11D97",
     "U+11EF3", "U+11EF4", "U+13430", "U+13431", "U+13432", "U+13433",
     "U+13434", "U+13435", "U+13436", "U+13437", "U+13438", "U+16AF0",
     "U+16AF1", "U+16AF2", "U+16AF3", "U+16AF4", "U+16B30", "U+16B31",
     "U+16B32", "U+16B33", "U+16B34", "U+16B35", "U+16B36", "U+16B40",
     "U+16B41", "U+16B42", "U+16B43", "U+16F4F", "U+16F8F", "U+16F90",
     "U+16F91", "U+16F92", "U+16F93", "U+16F94", "U+16F95", "U+16F96",
     "U+16F97", "U+16F98", "U+16F99", "U+16F9A", "U+16F9B", "U+16F9C",
     "U+16F9D", "U+16F9E", "U+16F9F", "U+16FE0", "U+16FE1", "U+16FE3",
     "U+16FE4", "U+1AFF0", "U+1AFF1", "U+1AFF2", "U+1AFF3", "U+1AFF5",
     "U+1AFF6", "U+1AFF7", "U+1AFF8", "U+1AFF9", "U+1AFFA", "U+1AFFB",
     "U+1AFFD", "U+1AFFE", "U+1BC9D", "U+1BC9E", "U+1BCA0", "U+1BCA1",
     "U+1BCA2", "U+1BCA3", "U+1CF00", "U+1CF01", "U+1CF02", "U+1CF03",
     "U+1CF04", "U+1CF05", "U+1CF06", "U+1CF07", "U+1CF08", "U+1CF09",
     "U+1CF0A", "U+1CF0B", "U+1CF0C", "U+1CF0D", "U+1CF0E", "U+1CF0F",
     "U+1CF10", "U+1CF11", "U+1CF12", "U+1CF13", "U+1CF14", "U+1CF15",
     "U+1CF16", "U+1CF17", "U+1CF18", "U+1CF19", "U+1CF1A", "U+1CF1B",
     "U+1CF1C", "U+1CF1D", "U+1CF1E", "U+1CF1F", "U+1CF20", "U+1CF21",
     "U+1CF22", "U+1CF23", "U+1CF24", "U+1CF25", "U+1CF26", "U+1CF27",
     "U+1CF28", "U+1CF29", "U+1CF2A", "U+1CF2B", "U+1CF2C", "U+1CF2D",
     "U+1CF30", "U+1CF31", "U+1CF32", "U+1CF33", "U+1CF34", "U+1CF35",
     "U+1CF36", "U+1CF37", "U+1CF38", "U+1CF39", "U+1CF3A", "U+1CF3B",
     "U+1CF3C", "U+1CF3D", "U+1CF3E", "U+1CF3F", "U+1CF40", "U+1CF41",
     "U+1CF42", "U+1CF43", "U+1CF44", "U+1CF45", "U+1CF46", "U+1D167",
     "U+1D168", "U+1D169", "U+1D173", "U+1D174", "U+1D175", "U+1D176",
     "U+1D177", "U+1D178", "U+1D179", "U+1D17A", "U+1D17B", "U+1D17C",
     "U+1D17D", "U+1D17E", "U+1D17F", "U+1D180", "U+1D181", "U+1D182",
     "U+1D185", "U+1D186", "U+1D187", "U+1D188", "U+1D189", "U+1D18A",
     "U+1D18B", "U+1D1AA", "U+1D1AB", "U+1D1AC", "U+1D1AD", "U+1D242",
     "U+1D243", "U+1D244", "U+1DA00", "U+1DA01", "U+1DA02", "U+1DA03",
     "U+1DA04", "U+1DA05", "U+1DA06", "U+1DA07", "U+1DA08", "U+1DA09",
     "U+1DA0A", "U+1DA0B", "U+1DA0C", "U+1DA0D", "U+1DA0E", "U+1DA0F",
     "U+1DA10", "U+1DA11", "U+1DA12", "U+1DA13", "U+1DA14", "U+1DA15",
     "U+1DA16", "U+1DA17", "U+1DA18", "U+1DA19", "U+1DA1A", "U+1DA1B",
     "U+1DA1C", "U+1DA1D", "U+1DA1E", "U+1DA1F", "U+1DA20", "U+1DA21",
     "U+1DA22", "U+1DA23", "U+1DA24", "U+1DA25", "U+1DA26", "U+1DA27",
     "U+1DA28", "U+1DA29", "U+1DA2A", "U+1DA2B", "U+1DA2C", "U+1DA2D",
     "U+1DA2E", "U+1DA2F", "U+1DA30", "U+1DA31", "U+1DA32", "U+1DA33",
     "U+1DA34", "U+1DA35", "U+1DA36", "U+1DA3B", "U+1DA3C", "U+1DA3D",
     "U+1DA3E", "U+1DA3F", "U+1DA40", "U+1DA41", "U+1DA42", "U+1DA43",
     "U+1DA44", "U+1DA45", "U+1DA46", "U+1DA47", "U+1DA48", "U+1DA49",
     "U+1DA4A", "U+1DA4B", "U+1DA4C", "U+1DA4D", "U+1DA4E", "U+1DA4F",
     "U+1DA50", "U+1DA51", "U+1DA52", "U+1DA53", "U+1DA54", "U+1DA55",
     "U+1DA56", "U+1DA57", "U+1DA58", "U+1DA59", "U+1DA5A", "U+1DA5B",
     "U+1DA5C", "U+1DA5D", "U+1DA5E", "U+1DA5F", "U+1DA60", "U+1DA61",
     "U+1DA62", "U+1DA63", "U+1DA64", "U+1DA65", "U+1DA66", "U+1DA67",
     "U+1DA68", "U+1DA69", "U+1DA6A", "U+1DA6B", "U+1DA6C", "U+1DA75",
     "U+1DA84", "U+1DA9B", "U+1DA9C", "U+1DA9D", "U+1DA9E", "U+1DA9F",
     "U+1DAA1", "U+1DAA2", "U+1DAA3", "U+1DAA4", "U+1DAA5", "U+1DAA6",
     "U+1DAA7", "U+1DAA8", "U+1DAA9", "U+1DAAA", "U+1DAAB", "U+1DAAC",
     "U+1DAAD", "U+1DAAE", "U+1DAAF", "U+1E000", "U+1E001", "U+1E002",
     "U+1E003", "U+1E004", "U+1E005", "U+1E006", "U+1E008", "U+1E009",
     "U+1E00A", "U+1E00B", "U+1E00C", "U+1E00D", "U+1E00E", "U+1E00F",
     "U+1E010", "U+1E011", "U+1E012", "U+1E013", "U+1E014", "U+1E015",
     "U+1E016", "U+1E017", "U+1E018", "U+1E01B", "U+1E01C", "U+1E01D",
     "U+1E01E", "U+1E01F", "U+1E020", "U+1E021", "U+1E023", "U+1E024",
     "U+1E026", "U+1E027", "U+1E028", "U+1E029", "U+1E02A", "U+1E130",
     "U+1E131", "U+1E132", "U+1E133", "U+1E134", "U+1E135", "U+1E136",
     "U+1E137", "U+1E138", "U+1E139", "U+1E13A", "U+1E13B", "U+1E13C",
     "U+1E13D", "U+1E2AE", "U+1E2EC", "U+1E2ED", "U+1E2EE", "U+1E2EF",
     "U+1E8D0", "U+1E8D1", "U+1E8D2", "U+1E8D3", "U+1E8D4", "U+1E8D5",
     "U+1E8D6", "U+1E944", "U+1E945", "U+1E946", "U+1E947", "U+1E948",
     "U+1E949", "U+1E94A", "U+1E94B", "U+1F3FB", "U+1F3FC", "U+1F3FD",
     "U+1F3FE", "U+1F3FF", "U+E0001", "U+E0020", "U+E0021", "U+E0022",
     "U+E0023", "U+E0024", "U+E0025", "U+E0026", "U+E0027", "U+E0028",
     "U+E0029", "U+E002A", "U+E002B", "U+E002C", "U+E002D", "U+E002E",
     "U+E002F", "U+E0030", "U+E0031", "U+E0032", "U+E0033", "U+E0034",
     "U+E0035", "U+E0036", "U+E0037", "U+E0038", "U+E0039", "U+E003A",
     "U+E003B", "U+E003C", "U+E003D", "U+E003E", "U+E003F", "U+E0040",
     "U+E0041", "U+E0042", "U+E0043", "U+E0044", "U+E0045", "U+E0046",
     "U+E0047", "U+E0048", "U+E0049", "U+E004A", "U+E004B", "U+E004C",
     "U+E004D", "U+E004E", "U+E004F", "U+E0050", "U+E0051", "U+E0052",
     "U+E0053", "U+E0054", "U+E0055", "U+E0056", "U+E0057", "U+E0058",
     "U+E0059", "U+E005A", "U+E005B", "U+E005C", "U+E005D", "U+E005E",
     "U+E005F", "U+E0060", "U+E0061", "U+E0062", "U+E0063", "U+E0064",
     "U+E0065", "U+E0066", "U+E0067", "U+E0068", "U+E0069", "U+E006A",
     "U+E006B", "U+E006C", "U+E006D", "U+E006E", "U+E006F", "U+E0070",
     "U+E0071", "U+E0072", "U+E0073", "U+E0074", "U+E0075", "U+E0076",
     "U+E0077", "U+E0078", "U+E0079", "U+E007A", "U+E007B", "U+E007C",
     "U+E007D", "U+E007E", "U+E007F", "U+E0100", "U+E0101", "U+E0102",
     "U+E0103", "U+E0104", "U+E0105", "U+E0106", "U+E0107", "U+E0108",
     "U+E0109", "U+E010A", "U+E010B", "U+E010C", "U+E010D", "U+E010E",
     "U+E010F", "U+E0110", "U+E0111", "U+E0112", "U+E0113", "U+E0114",
     "U+E0115", "U+E0116", "U+E0117", "U+E0118", "U+E0119", "U+E011A",
     "U+E011B", "U+E011C", "U+E011D", "U+E011E", "U+E011F", "U+E0120",
     "U+E0121", "U+E0122", "U+E0123", "U+E0124", "U+E0125", "U+E0126",
     "U+E0127", "U+E0128", "U+E0129", "U+E012A", "U+E012B", "U+E012C",
     "U+E012D", "U+E012E", "U+E012F", "U+E0130", "U+E0131", "U+E0132",
     "U+E0133", "U+E0134", "U+E0135", "U+E0136", "U+E0137", "U+E0138",
     "U+E0139", "U+E013A", "U+E013B", "U+E013C", "U+E013D", "U+E013E",
     "U+E013F", "U+E0140", "U+E0141", "U+E0142", "U+E0143", "U+E0144",
     "U+E0145", "U+E0146", "U+E0147", "U+E0148", "U+E0149", "U+E014A",
     "U+E014B", "U+E014C", "U+E014D", "U+E014E", "U+E014F", "U+E0150",
     "U+E0151", "U+E0152", "U+E0153", "U+E0154", "U+E0155", "U+E0156",
     "U+E0157", "U+E0158", "U+E0159", "U+E015A", "U+E015B", "U+E015C",
     "U+E015D", "U+E015E", "U+E015F", "U+E0160", "U+E0161", "U+E0162",
     "U+E0163", "U+E0164", "U+E0165", "U+E0166", "U+E0167", "U+E0168",
     "U+E0169", "U+E016A", "U+E016B", "U+E016C", "U+E016D", "U+E016E",
     "U+E016F", "U+E0170", "U+E0171", "U+E0172", "U+E0173", "U+E0174",
     "U+E0175", "U+E0176", "U+E0177", "U+E0178", "U+E0179", "U+E017A",
     "U+E017B", "U+E017C", "U+E017D", "U+E017E", "U+E017F", "U+E0180",
     "U+E0181", "U+E0182", "U+E0183", "U+E0184", "U+E0185", "U+E0186",
     "U+E0187", "U+E0188", "U+E0189", "U+E018A", "U+E018B", "U+E018C",
     "U+E018D", "U+E018E", "U+E018F", "U+E0190", "U+E0191", "U+E0192",
     "U+E0193", "U+E0194", "U+E0195", "U+E0196", "U+E0197", "U+E0198",
     "U+E0199", "U+E019A", "U+E019B", "U+E019C", "U+E019D", "U+E019E",
     "U+E019F", "U+E01A0", "U+E01A1", "U+E01A2", "U+E01A3", "U+E01A4",
     "U+E01A5", "U+E01A6", "U+E01A7", "U+E01A8", "U+E01A9", "U+E01AA",
     "U+E01AB", "U+E01AC", "U+E01AD", "U+E01AE", "U+E01AF", "U+E01B0",
     "U+E01B1", "U+E01B2", "U+E01B3", "U+E01B4", "U+E01B5", "U+E01B6",
     "U+E01B7", "U+E01B8", "U+E01B9", "U+E01BA", "U+E01BB", "U+E01BC",
     "U+E01BD", "U+E01BE", "U+E01BF", "U+E01C0", "U+E01C1", "U+E01C2",
     "U+E01C3", "U+E01C4", "U+E01C5", "U+E01C6", "U+E01C7", "U+E01C8",
     "U+E01C9", "U+E01CA", "U+E01CB", "U+E01CC", "U+E01CD", "U+E01CE",
     "U+E01CF", "U+E01D0", "U+E01D1", "U+E01D2", "U+E01D3", "U+E01D4",
     "U+E01D5", "U+E01D6", "U+E01D7", "U+E01D8", "U+E01D9", "U+E01DA",
     "U+E01DB", "U+E01DC", "U+E01DD", "U+E01DE", "U+E01DF", "U+E01E0",
     "U+E01E1", "U+E01E2", "U+E01E3", "U+E01E4", "U+E01E5", "U+E01E6",
     "U+E01E7", "U+E01E8", "U+E01E9", "U+E01EA", "U+E01EB", "U+E01EC",
     "U+E01ED", "U+E01EE", "U+E01EF"}

\* The characters that have a case (_PyUnicode_IsCased)
Cased ==
    {"A", "B", "C", "D", "E", "F", "G", "H", "I", "J", "K", "L", "M", "N",
     "O", "P", "Q", "R", "S", "T", "U", "V", "W", "X", "Y", "Z", "a", "b",
     "c", "d", "e", "f", "g", "h", "i", "j", "k", "l", "m", "n", "o", "p",
     "q", "r", "s", "t", "u", "v", "w", "x", "y", "z", "ª", "µ", "º", "À",
     "Á", "Â", "Ã", "Ä", "Å", "Æ", "Ç", "È", "É", "Ê", "Ë", "Ì", "Í", "Î",
     "Ï", "Ð", "Ñ", "Ò", "Ó", "Ô", "Õ", "Ö", "Ø", "Ù", "Ú", "Û", "Ü", "Ý",
     "Þ", "ß", "à", "á", "â", "ã", "ä", "å", "æ", "ç", "è", "é", "ê", "ë",
     "ì", "í", "î", "ï", "ð", "ñ", "ò", "ó", "ô", "õ", "ö", "ø", "ù", "ú",
     "û", "ü", "ý", "þ", "ÿ", "U+0100", "U+0101", "U+0102", "U+0103",
     "U+0104", "U+0105", "U+0106", "U+0107", "U+0108", "U+0109", "U+010A",
     "U+010B", "U+010C", "U+010D", "U+010E", "U+010F", "U+0110", "U+0111",
     "U+0112", "U+0113", "U+0114", "U+0115", "U+0116", "U+0117", "U+0118",
     "U+0119", "U+011A", "U+011B", "U+011C", "U+011D", "U+011E", "U+011F",
     "U+0120", "U+0121", "U+0122", "U+0123", "U+0124", "U+0125", "U+0126",
     "U+0127", "U+0128", "U+0129", "U+012A", "U+012B", "U+012C", "U+012D",
     "U+012E", "U+012F", "U+0130", "U+0131", "U+0132", "U+0133", "U+0134",
     "U+0135", "U+0136", "U+0137", "U+0138", "U+0139", "U+013A", "U+013B",
     "U+013C", "U+013D", "U+013E", "U+013F", "U+0140", "U+0141", "U+0142",
     "U+0143", "U+0144", "U+0145", "U+0146", "U+0147", "U+0148", "U+0149",
     "U+014A", "U+014B", "U+014C", "U+014D", "U+014E", "U+014F", "U+0150",
     "U+0151", "U+0152", "U+0153", "U+0154", "U+0155", "U+0156", "U+0157",
     "U+0158", "U+0159", "U+015A", "U+015B", "U+015C", "U+015D", "U+015E",
     "U+015F", "U+0160", "U+0161", "U+0162", "U+0163", "U+0164", "U+0165",
     "U+0166", "U+0167", "U+0168", "U+0169", "U+016A", "U+016B", "U+016C",
     "U+016D", "U+016E", "U+016F", "U+0170", "U+0171", "U+0172", "U+0173",
     "U+0174", "U+0175", "U+0176", "U+0177", "U+0178", "U+0179", "U+017A",
     "U+017B", "U+017C", "U+017D", "U+017E", "U+017F", "ƀ", "Ɓ", "Ƃ", "ƃ",
     "Ƅ", "ƅ", "Ɔ", "Ƈ", "ƈ", "Ɖ", "Ɗ", "Ƌ", "ƌ", "ƍ", "Ǝ", "Ə", "Ɛ", "Ƒ",
     "ƒ", "Ɠ", "Ɣ", "ƕ", "Ɩ", "Ɨ", "Ƙ", "ƙ", "ƚ", "ƛ", "Ɯ", "Ɲ", "ƞ", "Ɵ",
     "Ơ", "ơ", "Ƣ", "ƣ", "Ƥ", "ƥ", "Ʀ", "Ƨ", "ƨ", "Ʃ", "ƪ", "ƫ", "Ƭ", "ƭ",
     "Ʈ", "Ư", "ư", "Ʊ", "Ʋ", "Ƴ", "ƴ", "Ƶ", "ƶ", "Ʒ", "Ƹ", "ƹ", "ƺ", "Ƽ",
     "ƽ", "ƾ", "ƿ", "Ǆ", "ǅ", "ǆ", "Ǉ", "ǈ", "ǉ", "Ǌ", "ǋ", "ǌ", "Ǎ", "ǎ",
     "Ǐ", "ǐ", "Ǒ", "ǒ", "Ǔ", "ǔ", "Ǖ", "ǖ", "Ǘ", "ǘ", "Ǚ", "ǚ", "Ǜ", "ǜ",
     "ǝ", "Ǟ", "ǟ", "Ǡ", "ǡ", "Ǣ", "ǣ", "Ǥ", "ǥ", "Ǧ", "ǧ", "Ǩ", "ǩ", "Ǫ",
     "ǫ", "Ǭ", "ǭ", "Ǯ", "ǯ", "ǰ", "Ǳ", "ǲ", "ǳ", "Ǵ", "ǵ", "Ƕ", "Ƿ", "Ǹ",
     "ǹ", "Ǻ", "ǻ", "Ǽ", "ǽ", "Ǿ", "ǿ", "U+0200", "U+0201", "U+0202",
     "U+0203", "U+0204", "U+0205", "U+0206", "U+0207", "U+0208", "U+0209",
     "U+020A", "U+020B", "U+020C", "U+020D", "U+020E", "U+020F", "U+0210",
     "U+0211", "U+0212", "U+0213", "U+0214", "U+0215", "U+0216", "U+0217",
     "U+0218", "U+0219", "U+021A", "U+021B", "U+021C", "U+021D", "U+021E",
     "U+021F", "U+0220", "U+0221", "U+0222", "U+0223", "U+0224", "U+0225",
     "U+0226", "U+0227", "U+0228", "U+0229", "U+022A", "U+022B", "U+022C",
     "U+022D", "U+022E", "U+022F", "U+0230", "U+0231", "U+0232", "U+0233",
     "U+0234", "U+0235", "U+0236", "U+0237", "U+0238", "U+0239", "U+023A",
     "U+023B", "U+023C", "U+023D", "U+023E", "U+023F", "U+0240", "U+0241",
     "U+0242", "U+0243", "U+0244", "U+0245", "U+0246", "U+0247", "U+0248",
     "U+0249", "U+024A", "U+024B", "U+024C", "U+024D", "U+024E", "U+024F",
     "U+0250", "U+0251", "U+0252", "U+0253", "U+0254", "U+0255", "U+0256",
     "U+0257", "U+0258", "U+0259", "U+025A", "U+025B", "U+025C", "U+025D",
     "U+025E", "U+025F", "U+0260", "U+0261", "U+0262", "U+0263", "U+0264",
     "U+0265", "U+0266", "U+0267", "U+0268", "U+0269", "U+026A", "U+026B",
     "U+026C", "U+026D", "U+026E", "U+026F", "U+0270", "U+0271", "U+0272",
     "U+0273", "U+0274", "U+0275", "U+0276", "U+0277", "U+0278", "U+0279",
     "U+027A", "U+027B", "U+027C", "U+027D", "U+027E", "U+027F", "ʀ", "ʁ",
     "ʂ", "ʃ", "ʄ", "ʅ", "ʆ", "ʇ", "ʈ", "ʉ", "ʊ", "ʋ", "ʌ", "ʍ", "ʎ", "ʏ",
     "ʐ", "ʑ", "ʒ", "ʓ", "ʕ", "ʖ", "ʗ", "ʘ", "ʙ", "ʚ", "ʛ", "ʜ", "ʝ", "ʞ",
     "ʟ", "ʠ", "ʡ", "ʢ", "ʣ", "ʤ", "ʥ", "ʦ", "ʧ", "ʨ", "ʩ", "ʪ", "ʫ", "ʬ",
     "ʭ", "ʮ", "ʯ", "ʰ", "ʱ", "ʲ", "ʳ", "ʴ", "ʵ", "ʶ", "ʷ", "ʸ", "ˀ", "ˁ",
     "ˠ", "ˡ", "ˢ", "ˣ", "ˤ", "U+0345", "U+0370", "U+0371", "U+0372",
     "U+0373", "U+0376", "U+0377", "U+037A", "U+037B", "U+037C", "U+037D",
     "U+037F", "Ά", "Έ", "Ή", "Ί", "Ό", "Ύ", "Ώ", "ΐ", "Α", "Β", "Γ", "Δ",
     "Ε", "Ζ", "Η", "Θ", "Ι", "Κ", "Λ", "Μ", "Ν", "Ξ", "Ο", "Π", "Ρ", "Σ",
     "Τ", "Υ", "Φ", "Χ", "Ψ", "Ω", "Ϊ", "Ϋ", "ά", "έ", "ή", "ί", "ΰ", "α",
     "β", "γ", "δ", "ε", "ζ", "η", "θ", "ι", "κ", "λ", "μ", "ν", "ξ", "ο",
     "π", "ρ", "ς", "σ", "τ", "υ", "φ", "χ", "ψ", "ω", "ϊ", "ϋ", "ό", "ύ",
     "ώ", "Ϗ", "ϐ", "ϑ", "ϒ", "ϓ", "ϔ", "ϕ", "ϖ", "ϗ", "Ϙ", "ϙ", "Ϛ", "ϛ",
     "Ϝ", "ϝ", "Ϟ", "ϟ", "Ϡ", "ϡ", "Ϣ", "ϣ", "Ϥ", "ϥ", "Ϧ", "ϧ", "Ϩ", "ϩ",
     "Ϫ", "ϫ", "Ϭ", "ϭ", "Ϯ", "ϯ", "ϰ", "ϱ", "ϲ", "ϳ", "ϴ", "ϵ", "Ϸ", "ϸ",
     "Ϲ", "Ϻ", "ϻ", "ϼ", "Ͻ", "Ͼ", "Ͽ", "U+0400", "U+0401", "U+0402",
     "U+0403", "U+0404", "U+0405", "U+0406", "U+0407", "U+0408", "U+0409",
     "U+040A", "U+040B", "U+040C", "U+040D", "U+040E", "U+040F", "U+0410",
     "U+0411", "U+0412", "U+0413", "U+0414", "U+0415", "U+0416", "U+0417",
     "U+0418", "U+0419", "U+041A", "U+041B", "U+041C", "U+041D", "U+041E",
     "U+041F", "U+0420", "U+0421", "U+0422", "U+0423", "U+0424", "U+0425",
     "U+0426", "U+0427", "U+0428", "U+0429", "U+042A", "U+042B", "U+042C",
     "U+042D", "U+042E", "U+042F", "U+0430", "U+0431", "U+0432", "U+0433",
     "U+0434", "U+0435", "U+0436", "U+0437", "U+0438", "U+0439", "U+043A",
     "U+043B", "U+043C", "U+043D", "U+043E", "U+043F", "U+0440", "U+0441",
     "U+0442", "U+0443", "U+0444", "U+0445", "U+0446", "U+0447", "U+0448",
     "U+0449", "U+044A", "U+044B", "U+044C", "U+044D", "U+044E", "U+044F",
     "U+0450", "U+0451", "U+0452", "U+0453", "U+0454", "U+0455", "U+0456",
     "U+0457", "U+0458", "U+0459", "U+045A", "U+045B", "U+045C", "U+045D",
     "U+045E", "U+045F", "U+0460", "U+0461", "U+0462", "U+0463", "U+0464",
     "U+0465", "U+0466", "U+0467", "U+0468", "U+0469", "U+046A", "U+046B",
     "U+046C", "U+046D", "U+046E", "U+046F", "U+0470", "U+0471", "U+0472",
     "U+0473", "U+0474", "U+0475", "U+0476", "U+0477", "U+0478", "U+0479",
     "U+047A", "U+047B", "U+047C", "U+047D", "U+047E", "U+047F", "Ҁ", "ҁ",
     "Ҋ", "ҋ", "Ҍ", "ҍ", "Ҏ", "ҏ", "Ґ", "ґ", "Ғ", "ғ", "Ҕ", "ҕ", "Җ", "җ",
     "Ҙ", "ҙ", "Қ", "қ", "Ҝ", "ҝ", "Ҟ", "ҟ", "Ҡ", "ҡ", "Ң", "ң", "Ҥ", "ҥ",
     "Ҧ", "ҧ", "Ҩ", "ҩ", "Ҫ", "ҫ", "Ҭ", "ҭ", "Ү", "ү", "Ұ", "ұ", "Ҳ", "ҳ",
     "Ҵ", "ҵ", "Ҷ", "ҷ", "Ҹ", "ҹ", "Һ", "һ", "Ҽ", "ҽ", "Ҿ", "ҿ", "Ӏ", "Ӂ",
     "ӂ", "Ӄ", "ӄ", "Ӆ", "ӆ", "Ӈ", "ӈ", "Ӊ", "ӊ", "Ӌ", "ӌ", "Ӎ", "ӎ", "ӏ",
     "Ӑ", "ӑ", "Ӓ", "ӓ", "Ӕ", "ӕ", "Ӗ", "ӗ", "Ә", "ә", "Ӛ", "ӛ", "Ӝ", "ӝ",
     "Ӟ", "ӟ", "Ӡ", "ӡ", "Ӣ", "ӣ", "Ӥ", "ӥ", "Ӧ", "ӧ", "Ө", "ө", "Ӫ", "ӫ",
     "Ӭ", "ӭ", "Ӯ", "ӯ", "Ӱ", "ӱ", "Ӳ", "ӳ", "Ӵ", "ӵ", "Ӷ", "ӷ", "Ӹ", "ӹ",
     "Ӻ", "ӻ", "Ӽ", "ӽ", "Ӿ", "ӿ", "U+0500", "U+0501", "U+0502", "U+0503",
     "U+0504", "U+0505", "U+0506", "U+0507", "U+0508", "U+0509", "U+050A",
     "U+050B", "U+050C", "U+050D", "U+050E", "U+050F", "U+0510", "U+0511",
     "U+0512", "U+0513", "U+0514", "U+0515", "U+0516", "U+0517", "U+0518",
     "U+0519", "U+051A", "U+051B", "U+051C", "U+051D", "U+051E", "U+051F",
     "U+0520", "U+0521", "U+0522", "U+0523", "U+0524", "U+0525", "U+0526",
     "U+0527", "U+0528", "U+0529", "U+052A", "U+052B", "U+052C", "U+052D",
     "U+052E", "U+052F", "U+0531", "U+0532", "U+0533", "U+0534", "U+0535",
     "U+0536", "U+0537", "U+0538", "U+0539", "U+053A", "U+053B", "U+053C",
     "U+053D", "U+053E", "U+053F", "U+0540", "U+0541", "U+0542", "U+0543",
     "U+0544", "U+0545", "U+0546", "U+0547", "U+0548", "U+0549", "U+054A",
     "U+054B", "U+054C", "U+054D", "U+054E", "U+054F", "U+0550", "U+0551",
     "U+0552", "U+0553", "U+0554", "U+0555", "U+0556", "U+0560", "U+0561",
     "U+0562", "U+0563", "U+0564", "U+0565", "U+0566", "U+0567", "U+0568",
     "U+0569", "U+056A", "U+056B", "U+056C", "U+056D", "U+056E", "U+056F",
     "U+0570", "U+0571", "U+0572", "U+0573", "U+0574", "U+0575", "U+0576",
     "U+0577", "U+0578", "U+0579", "U+057A", "U+057B", "U+057C", "U+057D",
     "U+057E", "U+057F", "ր", "ց", "ւ", "փ", "ք", "օ", "ֆ", "և", "ֈ", "Ⴀ",
     "Ⴁ", "Ⴂ", "Ⴃ", "Ⴄ", "Ⴅ", "Ⴆ", "Ⴇ", "Ⴈ", "Ⴉ", "Ⴊ", "Ⴋ", "Ⴌ", "Ⴍ", "Ⴎ",
     "Ⴏ", "Ⴐ", "Ⴑ", "Ⴒ", "Ⴓ", "Ⴔ", "Ⴕ", "Ⴖ", "Ⴗ", "Ⴘ", "Ⴙ", "Ⴚ", "Ⴛ", "Ⴜ",
     "Ⴝ", "Ⴞ", "Ⴟ", "Ⴠ", "Ⴡ", "Ⴢ", "Ⴣ", "Ⴤ", "Ⴥ", "Ⴧ", "Ⴭ", "ა", "ბ", "გ",
     "დ", "ე", "ვ", "ზ", "თ", "ი", "კ", "ლ", "მ", "ნ", "ო", "პ", "ჟ", "რ",
     "ს", "ტ", "უ", "ფ", "ქ", "ღ", "ყ", "შ", "ჩ", "ც", "ძ", "წ", "ჭ", "ხ",
     "ჯ", "ჰ", "ჱ", "ჲ", "ჳ", "ჴ", "ჵ", "ჶ", "ჷ", "ჸ", "ჹ", "ჺ", "ჽ", "ჾ",
     "ჿ", "Ꭰ", "Ꭱ", "Ꭲ", "Ꭳ", "Ꭴ", "Ꭵ", "Ꭶ", "Ꭷ", "Ꭸ", "Ꭹ", "Ꭺ", "Ꭻ", "Ꭼ",
     "Ꭽ", "Ꭾ", "Ꭿ", "Ꮀ", "Ꮁ", "Ꮂ", "Ꮃ", "Ꮄ", "Ꮅ", "Ꮆ", "Ꮇ", "Ꮈ", "Ꮉ", "Ꮊ",
     "Ꮋ", "Ꮌ", "Ꮍ", "Ꮎ", "Ꮏ", "Ꮐ", "Ꮑ", "Ꮒ", "Ꮓ", "Ꮔ", "Ꮕ", "Ꮖ", "Ꮗ", "Ꮘ",
     "Ꮙ", "Ꮚ", "Ꮛ", "Ꮜ", "Ꮝ", "Ꮞ", "Ꮟ", "Ꮠ", "Ꮡ", "Ꮢ", "Ꮣ", "Ꮤ", "Ꮥ", "Ꮦ",
     "Ꮧ", "Ꮨ", "Ꮩ", "Ꮪ", "Ꮫ", "Ꮬ", "Ꮭ", "Ꮮ", "Ꮯ", "Ꮰ", "Ꮱ", "Ꮲ", "Ꮳ", "Ꮴ",
     "Ꮵ", "Ꮶ", "Ꮷ", "Ꮸ", "Ꮹ", "Ꮺ", "Ꮻ", "Ꮼ", "Ꮽ", "Ꮾ", "Ꮿ", "Ᏸ", "Ᏹ", "Ᏺ",
     "Ᏻ", "Ᏼ", "Ᏽ", "ᏸ", "ᏹ", "ᏺ", "ᏻ", "ᏼ", "ᏽ", "ᲀ", "ᲁ", "ᲂ", "ᲃ", "ᲄ",
     "ᲅ", "ᲆ", "ᲇ", "ᲈ", "Ა", "Ბ", "Გ", "Დ", "Ე", "Ვ", "Ზ", "Თ", "Ი", "Კ",
     "Ლ", "Მ", "Ნ", "Ო", "Პ", "Ჟ", "Რ", "Ს", "Ტ", "Უ", "Ფ", "Ქ", "Ღ", "Ყ",
     "Შ", "Ჩ", "Ც", "Ძ", "Წ", "Ჭ", "Ხ", "Ჯ", "Ჰ", "Ჱ", "Ჲ", "Ჳ", "Ჴ", "Ჵ",
     "Ჶ", "Ჷ", "Ჸ", "Ჹ", "Ჺ", "Ჽ", "Ჾ", "Ჿ", "U+1D00", "U+1D01", "U+1D02",
     "U+1D03", "U+1D04", "U+1D05", "U+1D06", "U+1D07", "U+1D08", "U+1D09",
     "U+1D0A", "U+1D0B", "U+1D0C", "U+1D0D", "U+1D0E", "U+1D0F", "U+1D10",
     "U+1D11", "U+1D12", "U+1D13", "U+1D14", "U+1D15", "U+1D16", "U+1D17",
     "U+1D18", "U+1D19", "U+1D1A", "U+1D1B", "U+1D1C", "U+1D1D", "U+1D1E",
     "U+1D1F", "U+1D20", "U+1D21", "U+1D22", "U+1D23", "U+1D24", "U+1D25",
     "U+1D26", "U+1D27", "U+1D28", "U+1D29", "U+1D2A", "U+1D2B", "U+1D2C",
     "U+1D2D", "U+1D2E", "U+1D2F", "U+1D30", "U+1D31", "U+1D32", "U+1D33",
     "U+1D34", "U+1D35", "U+1D36", "U+1D37", "U+1D38", "U+1D39", "U+1D3A",
     "U+1D3B", "U+1D3C", "U+1D3D", "U+1D3E", "U+1D3F", "U+1D40", "U+1D41",
     "U+1D42", "U+1D43", "U+1D44", "U+1D45", "U+1D46", "U+1D47", "U+1D48",
     "U+1D49", "U+1D4A", "U+1D4B", "U+1D4C", "U+1D4D", "U+1D4E", "U+1D4F",
     "U+1D50", "U+1D51", "U+1D52", "U+1D53", "U+1D54", "U+1D55", "U+1D56",
     "U+1D57", "U+1D58", "U+1D59", "U+1D5A", "U+1D5B", "U+1D5C", "U+1D5D",
     "U+1D5E", "U+1D5F", "U+1D60", "U+1D61", "U+1D62", "U+1D63", "U+1D64",
     "U+1D65", "U+1D66", "U+1D67", "U+1D68", "U+1D69", "U+1D6A", "U+1D6B",
     "U+1D6C", "U+1D6D", "U+1D6E", "U+1D6F", "U+1D70", "U+1D71", "U+1D72",
     "U+1D73", "U+1D74", "U+1D75", "U+1D76", "U+1D77", "U+1D78", "U+1D79",
     "U+1D7A", "U+1D7B", "U+1D7C", "U+1D7D", "U+1D7E", "U+1D7F", "ᶀ", "ᶁ",
     "ᶂ", "ᶃ", "ᶄ", "ᶅ", "ᶆ", "ᶇ", "ᶈ", "ᶉ", "ᶊ", "ᶋ", "ᶌ", "ᶍ", "ᶎ", "ᶏ",
     "ᶐ", "ᶑ", "ᶒ", "ᶓ", "ᶔ", "ᶕ", "ᶖ", "ᶗ", "ᶘ", "ᶙ", "ᶚ", "ᶛ", "ᶜ", "ᶝ",
     "ᶞ", "ᶟ", "ᶠ", "ᶡ", "ᶢ", "ᶣ", "ᶤ", "ᶥ", "ᶦ", "ᶧ", "ᶨ", "ᶩ", "ᶪ", "ᶫ",
     "ᶬ", "ᶭ", "ᶮ", "ᶯ", "ᶰ", "ᶱ", "ᶲ", "ᶳ", "ᶴ", "ᶵ", "ᶶ", "ᶷ", "ᶸ", "ᶹ",
     "ᶺ", "ᶻ", "ᶼ", "ᶽ", "ᶾ", "ᶿ", "U+1E00", "U+1E01", "U+1E02", "U+1E03",
     "U+1E04", "U+1E05", "U+1E06", "U+1E07", "U+1E08", "U+1E09", "U+1E0A",
     "U+1E0B", "U+1E0C", "U+1E0D", "U+1E0E", "U+1E0F", "U+1E10", "U+1E11",
     "U+1E12", "U+1E13", "U+1E14", "U+1E15", "U+1E16", "U+1E17", "U+1E18",
     "U+1E19", "U+1E1A", "U+1E1B", "U+1E1C", "U+1E1D", "U+1E1E", "U+1E1F",
     "U+1E20", "U+1E21", "U+1E22", "U+1E23", "U+1E24", "U+1E25", "U+1E26",
     "U+1E27", "U+1E28", "U+1E29", "U+1E2A", "U+1E2B", "U+1E2C", "U+1E2D",
     "U+1E2E", "U+1E2F", "U+1E30", "U+1E31", "U+1E32", "U+1E33", "U+1E34",
     "U+1E35", "U+1E36", "U+1E37", "U+1E38", "U+1E39", "U+1E3A", "U+1E3B",
     "U+1E3C", "U+1E3D", "U+1E3E", "U+1E3F", "U+1E40", "U+1E41", "U+1E42",
     "U+1E43", "U+1E44", "U+1E45", "U+1E46", "U+1E47", "U+1E48", "U+1E49",
     "U+1E4A", "U+1E4B", "U+1E4C", "U+1E4D", "U+1E4E", "U+1E4F", "U+1E50",
     "U+1E51", "U+1E52", "U+1E53", "U+1E54", "U+1E55", "U+1E56", "U+1E57",
     "U+1E58", "U+1E59", "U+1E5A", "U+1E5B", "U+1E5C", "U+1E5D", "U+1E5E",
     "U+1E5F", "U+1E60", "U+1E61", "U+1E62", "U+1E63", "U+1E64", "U+1E65",
     "U+1E66", "U+1E67", "U+1E68", "U+1E69", "U+1E6A", "U+1E6B", "U+1E6C",
     "U+1E6D", "U+1E6E", "U+1E6F", "U+1E70", "U+1E71", "U+1E72", "U+1E73",
     "U+1E74", "U+1E75", "U+1E76", "U+1E77", "U+1E78", "U+1E79", "U+1E7A",
     "U+1E7B", "U+1E7C", "U+1E7D", "U+1E7E", "U+1E7F", "Ẁ", "ẁ", "Ẃ", "ẃ",
     "Ẅ", "ẅ", "Ẇ", "ẇ", "Ẉ", "ẉ", "Ẋ", "ẋ", "Ẍ", "ẍ", "Ẏ", "ẏ", "Ẑ", "ẑ",
     "Ẓ", "ẓ", "Ẕ", "ẕ", "ẖ", "ẗ", "ẘ", "ẙ", "ẚ", "ẛ", "ẜ", "ẝ", "ẞ", "ẟ",
     "Ạ", "ạ", "Ả", "ả", "Ấ", "ấ", "Ầ", "ầ", "Ẩ", "ẩ", "Ẫ", "ẫ", "Ậ", "ậ",
     "Ắ", "ắ", "Ằ", "ằ", "Ẳ", "ẳ", "Ẵ", "ẵ", "Ặ", "ặ", "Ẹ", "ẹ", "Ẻ", "ẻ",
     "Ẽ", "ẽ", "Ế", "ế", "Ề", "ề", "Ể", "ể", "Ễ", "ễ", "Ệ", "ệ", "Ỉ", "ỉ",
     "Ị", "ị", "Ọ", "ọ", "Ỏ", "ỏ", "Ố", "ố", "Ồ", "ồ", "Ổ", "ổ", "Ỗ", "ỗ",
     "Ộ", "ộ", "Ớ", "ớ", "Ờ", "ờ", "Ở", "ở", "Ỡ", "ỡ", "Ợ", "ợ", "Ụ", "ụ",
     "Ủ", "ủ", "Ứ", "ứ", "Ừ", "ừ", "Ử", "ử", "Ữ", "ữ", "Ự", "ự", "Ỳ", "ỳ",
     "Ỵ", "ỵ", "Ỷ", "ỷ", "Ỹ", "ỹ", "Ỻ", "ỻ", "Ỽ", "ỽ", "Ỿ", "ỿ", "U+1F00",
     "U+1F01", "U+1F02", "U+1F03", "U+1F04", "U+1F05", "U+1F06", "U+1F07",
     "U+1F08", "U+1F09", "U+1F0A", "U+1F0B", "U+1F0C", "U+1F0D", "U+1F0E",
     "U+1F0F", "U+1F10", "U+1F11", "U+1F12", "U+1F13", "U+1F14", "U+1F15",
     "U+1F18", "U+1F19", "U+1F1A", "U+1F1B", "U+1F1C", "U+1F1D", "U+1F20",
     "U+1F21", "U+1F22", "U+1F23", "U+1F24", "U+1F25", "U+1F26", "U+1F27",
     "U+1F28", "U+1F29", "U+1F2A", "U+1F2B", "U+1F2C", "U+1F2D", "U+1F2E",
     "U+1F2F", "U+1F30", "U+1F31", "U+1F32", "U+1F33", "U+1F34", "U+1F35",
     "U+1F36", "U+1F37", "U+1F38", "U+1F39", "U+1F3A", "U+1F3B", "U+1F3C",
     "U+1F3D", "U+1F3E", "U+1F3F", "U+1F40", "U+1F41", "U+1F42", "U+1F43",
     "U+1F44", "U+1F45", "U+1F48", "U+1F49", "U+1F4A", "U+1F4B", "U+1F4C",
     "U+1F4D", "U+1F50", "U+1F51", "U+1F52", "U+1F53", "U+1F54", "U+1F55",
     "U+1F56", "U+1F57", "U+1F59", "U+1F5B", "U+1F5D", "U+1F5F", "U+1F60",
     "U+1F61", "U+1F62", "U+1F63", "U+1F64", "U+1F65", "U+1F66", "U+1F67",
     "U+1F68", "U+1F69", "U+1F6A", "U+1F6B", "U+1F6C", "U+1F6D", "U+1F6E",
     "U+1F6F", "U+1F70", "U+1F71", "U+1F72", "U+1F73", "U+1F74", "U+1F75",
     "U+1F76", "U+1F77", "U+1F78", "U+1F79", "U+1F7A", "U+1F7B", "U+1F7C",
     "U+1F7D", "ᾀ", "ᾁ", "ᾂ", "ᾃ", "ᾄ", "ᾅ", "ᾆ", "ᾇ", "ᾈ", "ᾉ", "ᾊ", "ᾋ",
     "ᾌ", "ᾍ", "ᾎ", "ᾏ", "ᾐ", "ᾑ", "ᾒ", "ᾓ", "ᾔ", "ᾕ", "ᾖ", "ᾗ", "ᾘ", "ᾙ",
     "ᾚ", "ᾛ", "ᾜ", "ᾝ", "ᾞ", "ᾟ", "ᾠ", "ᾡ", "ᾢ", "ᾣ", "ᾤ", "ᾥ", "ᾦ", "ᾧ",
     "ᾨ", "ᾩ", "ᾪ", "ᾫ", "ᾬ", "ᾭ", "ᾮ", "ᾯ", "ᾰ", "ᾱ", "ᾲ", "ᾳ", "ᾴ", "ᾶ",
     "ᾷ", "Ᾰ", "Ᾱ", "Ὰ", "Ά", "ᾼ", "ι", "ῂ", "ῃ", "ῄ", "ῆ", "ῇ", "Ὲ", "Έ",
     "Ὴ", "Ή", "ῌ", "ῐ", "ῑ", "ῒ", "ΐ", "ῖ", "ῗ", "Ῐ", "Ῑ", "Ὶ", "Ί", "ῠ",
     "ῡ", "ῢ", "ΰ", "ῤ", "ῥ", "ῦ", "ῧ", "Ῠ", "Ῡ", "Ὺ", "Ύ", "Ῥ", "ῲ", "ῳ",
     "ῴ", "ῶ", "ῷ", "Ὸ", "Ό", "Ὼ", "Ώ", "ῼ", "U+2071", "U+207F", "ₐ", "ₑ",
     "ₒ", "ₓ", "ₔ", "ₕ", "ₖ", "ₗ", "ₘ", "ₙ", "ₚ", "ₛ", "ₜ", "U+2102",
     "U+2107", "U+210A", "U+210B", "U+210C", "U+210D", "U+210E", "U+210F",
     "U+2110", "U+2111", "U+2112", "U+2113", "U+2115", "U+2119", "U+211A",
     "U+211B", "U+211C", "U+211D", "U+2124", "U+2126", "U+2128", "U+212A",
     "U+212B", "U+212C", "U+212D", "U+212F", "U+2130", "U+2131", "U+2132",
     "U+2133", "U+2134", "U+2139", "U+213C", "U+213D", "U+213E", "U+213F",
     "U+2145", "U+2146", "U+2147", "U+2148", "U+2149", "U+214E", "U+2160",
     "U+2161", "U+2162", "U+2163", "U+2164", "U+2165", "U+2166", "U+2167",
     "U+2168", "U+2169", "U+216A", "U+216B", "U+216C", "U+216D", "U+216E",
     "U+216F", "U+2170", "U+2171", "U+2172", "U+2173", "U+2174", "U+2175",
     "U+2176", "U+2177", "U+2178", "U+2179", "U+217A", "U+217B", "U+217C",
     "U+217D", "U+217E", "U+217F", "Ↄ", "ↄ", "Ⓐ", "Ⓑ", "Ⓒ", "Ⓓ", "Ⓔ", "Ⓕ",
     "Ⓖ", "Ⓗ", "Ⓘ", "Ⓙ", "Ⓚ", "Ⓛ", "Ⓜ", "Ⓝ", "Ⓞ", "Ⓟ", "Ⓠ", "Ⓡ", "Ⓢ", "Ⓣ",
     "Ⓤ", "Ⓥ", "Ⓦ", "Ⓧ", "Ⓨ", "Ⓩ", "ⓐ", "ⓑ", "ⓒ", "ⓓ", "ⓔ", "ⓕ", "ⓖ", "ⓗ",
     "ⓘ", "ⓙ", "ⓚ", "ⓛ", "ⓜ", "ⓝ", "ⓞ", "ⓟ", "ⓠ", "ⓡ", "ⓢ", "ⓣ", "ⓤ", "ⓥ",
     "ⓦ", "ⓧ", "ⓨ", "ⓩ", "U+2C00", "U+2C01", "U+2C02", "U+2C03", "U+2C04",
     "U+2C05", "U+2C06", "U+2C07", "U+2C08", "U+2C09", "U+2C0A", "U+2C0B",
     "U+2C0C", "U+2C0D", "U+2C0E", "U+2C0F", "U+2C10", "U+2C11", "U+2C12",
     "U+2C13", "U+2C14", "U+2C15", "U+2C16", "U+2C17", "U+2C18", "U+2C19",
     "U+2C1A", "U+2C1B", "U+2C1C", "U+2C1D", "U+2C1E", "U+2C1F", "U+2C20",
     "U+2C21", "U+2C22", "U+2C23", "U+2C24", "U+2C25", "U+2C26", "U+2C27",
     "U+2C28", "U+2C29", "U+2C2A", "U+2C2B", "U+2C2C", "U+2C2D", "U+2C2E",
     "U+2C2F", "U+2C30", "U+2C31", "U+2C32", "U+2C33", "U+2C34", "U+2C35",
     "U+2C36", "U+2C37", "U+2C38", "U+2C39", "U+2C3A", "U+2C3B", "U+2C3C",
     "U+2C3D", "U+2C3E", "U+2C3F", "U+2C40", "U+2C41", "U+2C42", "U+2C43",
     "U+2C44", "U+2C45", "U+2C46", "U+2C47", "U+2C48", "U+2C49", "U+2C4A",
     "U+2C4B", "U+2C4C", "U+2C4D", "U+2C4E", "U+2C4F", "U+2C50", "U+2C51",
     "U+2C52", "U+2C53", "U+2C54", "U+2C55", "U+2C56", "U+2C57", "U+2C58",
     "U+2C59", "U+2C5A", "U+2C5B", "U+2C5C", "U+2C5D", "U+2C5E", "U+2C5F",
     "U+2C60", "U+2C61", "U+2C62", "U+2C63", "U+2C64", "U+2C65", "U+2C66",
     "U+2C67", "U+2C68", "U+2C69", "U+2C6A", "U+2C6B", "U+2C6C", "U+2C6D",
     "U+2C6E", "U+2C6F", "U+2C70", "U+2C71", "U+2C72", "U+2C73", "U+2C74",
     "U+2C75", "U+2C76", "U+2C77", "U+2C78", "U+2C79", "U+2C7A", "U+2C7B",
     "U+2C7C", "U+2C7D", "U+2C7E", "U+2C7F", "Ⲁ", "ⲁ", "Ⲃ", "ⲃ", "Ⲅ", "ⲅ",
     "Ⲇ", "ⲇ", "Ⲉ", "ⲉ", "Ⲋ", "ⲋ", "Ⲍ", "ⲍ", "Ⲏ", "ⲏ", "Ⲑ", "ⲑ", "Ⲓ", "ⲓ",
     "Ⲕ", "ⲕ", "Ⲗ", "ⲗ", "Ⲙ", "ⲙ", "Ⲛ", "ⲛ", "Ⲝ", "ⲝ", "Ⲟ", "ⲟ", "Ⲡ", "ⲡ",
     "Ⲣ", "ⲣ", "Ⲥ", "ⲥ", "Ⲧ", "ⲧ", "Ⲩ", "ⲩ", "Ⲫ", "ⲫ", "Ⲭ", "ⲭ", "Ⲯ", "ⲯ",
     "Ⲱ", "ⲱ", "Ⲳ", "ⲳ", "Ⲵ", "ⲵ", "Ⲷ", "ⲷ", "Ⲹ", "ⲹ", "Ⲻ", "ⲻ", "Ⲽ", "ⲽ",
     "Ⲿ", "ⲿ", "Ⳁ", "ⳁ", "Ⳃ", "ⳃ", "Ⳅ", "ⳅ", "Ⳇ", "ⳇ", "Ⳉ", "ⳉ", "Ⳋ", "ⳋ",
     "Ⳍ", "ⳍ", "Ⳏ", "ⳏ", "Ⳑ", "ⳑ", "Ⳓ", "ⳓ", "Ⳕ", "ⳕ", "Ⳗ", "ⳗ", "Ⳙ", "ⳙ",
     "Ⳛ", "ⳛ", "Ⳝ", "ⳝ", "Ⳟ", "ⳟ", "Ⳡ", "ⳡ", "Ⳣ", "ⳣ", "ⳤ", "Ⳬ", "ⳬ", "Ⳮ",
     "ⳮ", "Ⳳ", "ⳳ", "U+2D00", "U+2D01", "U+2D02", "U+2D03", "U+2D04",
     "U+2D05", "U+2D06", "U+2D07", "U+2D08", "U+2D09", "U+2D0A", "U+2D0B",
     "U+2D0C", "U+2D0D", "U+2D0E", "U+2D0F", "U+2D10", "U+2D11", "U+2D12",
     "U+2D13", "U+2D14", "U+2D15", "U+2D16", "U+2D17", "U+2D18", "U+2D19",
     "U+2D1A", "U+2D1B", "U+2D1C", "U+2D1D", "U+2D1E", "U+2D1F", "U+2D20",
     "U+2D21", "U+2D22", "U+2D23", "U+2D24", "U+2D25", "U+2D27", "U+2D2D",
     "U+A640", "U+A641", "U+A642", "U+A643", "U+A644", "U+A645", "U+A646",
     "U+A647", "U+A648", "U+A649", "U+A64A", "U+A64B", "U+A64C", "U+A64D",
     "U+A64E", "U+A64F", "U+A650", "U+A651", "U+A652", "U+A653", "U+A654",
     "U+A655", "U+A656", "U+A657", "U+A658", "U+A659", "U+A65A", "U+A65B",
     "U+A65C", "U+A65D", "U+A65E", "U+A65F", "U+A660", "U+A661", "U+A662",
     "U+A663", "U+A664", "U+A665", "U+A666", "U+A667", "U+A668", "U+A669",
     "U+A66A", "U+A66B", "U+A66C", "U+A66D", "Ꚁ", "ꚁ", "Ꚃ", "ꚃ", "Ꚅ", "ꚅ",
     "Ꚇ", "ꚇ", "Ꚉ", "ꚉ", "Ꚋ", "ꚋ", "Ꚍ", "ꚍ", "Ꚏ", "ꚏ", "Ꚑ", "ꚑ", "Ꚓ", "ꚓ",
     "Ꚕ", "ꚕ", "Ꚗ", "ꚗ", "Ꚙ", "ꚙ", "Ꚛ", "ꚛ", "ꚜ", "ꚝ", "U+A722", "U+A723",
     "U+A724", "U+A725", "U+A726", "U+A727", "U+A728", "U+A729", "U+A72A",
     "U+A72B", "U+A72C", "U+A72D", "U+A72E", "U+A72F", "U+A730", "U+A731",
     "U+A732", "U+A733", "U+A734", "U+A735", "U+A736", "U+A737", "U+A738",
     "U+A739", "U+A73A", "U+A73B", "U+A73C", "U+A73D", "U+A73E", "U+A73F",
     "U+A740", "U+A741", "U+A742", "U+A743", "U+A744", "U+A745", "U+A746",
     "U+A747", "U+A748", "U+A749", "U+A74A", "U+A74B", "U+A74C", "U+A74D",
     "U+A74E", "U+A74F", "U+A750", "U+A751", "U+A752", "U+A753", "U+A754",
     "U+A755", "U+A756", "U+A757", "U+A758", "U+A759", "U+A75A", "U+A75B",
     "U+A75C", "U+A75D", "U+A75E", "U+A75F", "U+A760", "U+A761", "U+A762",
     "U+A763", "U+A764", "U+A765", "U+A766", "U+A767", "U+A768", "U+A769",
     "U+A76A", "U+A76B", "U+A76C", "U+A76D", "U+A76E", "U+A76F", "U+A770",
     "U+A771", "U+A772", "U+A773", "U+A774", "U+A775", "U+A776", "U+A777",
     "U+A778", "U+A779", "U+A77A", "U+A77B", "U+A77C", "U+A77D", "U+A77E",
     "U+A77F", "Ꞁ", "ꞁ", "Ꞃ", "ꞃ", "Ꞅ", "ꞅ", "Ꞇ", "ꞇ", "Ꞌ", "ꞌ", "Ɥ", "ꞎ",
     "Ꞑ", "ꞑ", "Ꞓ", "ꞓ", "ꞔ", "ꞕ", "Ꞗ", "ꞗ", "Ꞙ", "ꞙ", "Ꞛ", "ꞛ", "Ꞝ", "ꞝ",
     "Ꞟ", "ꞟ", "Ꞡ", "ꞡ", "Ꞣ", "ꞣ", "Ꞥ", "ꞥ", "Ꞧ", "ꞧ", "Ꞩ", "ꞩ", "Ɦ", "Ɜ",
     "Ɡ", "Ɬ", "Ɪ", "ꞯ", "Ʞ", "Ʇ", "Ʝ", "Ꭓ", "Ꞵ", "ꞵ", "Ꞷ", "ꞷ", "Ꞹ", "ꞹ",
     "Ꞻ", "ꞻ", "Ꞽ", "ꞽ", "Ꞿ", "ꞿ", "Ꟁ", "ꟁ", "Ꟃ", "ꟃ", "Ꞔ", "Ʂ", "Ᶎ", "Ꟈ",
     "ꟈ", "Ꟊ", "ꟊ", "Ꟑ", "ꟑ", "ꟓ", "ꟕ", "Ꟗ", "ꟗ", "Ꟙ", "ꟙ", "Ꟶ", "ꟶ", "ꟸ",
     "ꟹ", "ꟺ", "U+AB30", "U+AB31", "U+AB32", "U+AB33", "U+AB34", "U+AB35",
     "U+AB36", "U+AB37", "U+AB38", "U+AB39", "U+AB3A", "U+AB3B", "U+AB3C",
     "U+AB3D", "U+AB3E", "U+AB3F", "U+AB40", "U+AB41", "U+AB42", "U+AB43",
     "U+AB44", "U+AB45", "U+AB46", "U+AB47", "U+AB48", "U+AB49", "U+AB4A",
     "U+AB4B", "U+AB4C", "U+AB4D", "U+AB4E", "U+AB4F", "U+AB50", "U+AB51",
     "U+AB52", "U+AB53", "U+AB54", "U+AB55", "U+AB56", "U+AB57", "U+AB58",
     "U+AB59", "U+AB5A", "U+AB5C", "U+AB5D", "U+AB5E", "U+AB5F", "U+AB60",
     "U+AB61", "U+AB62", "U+AB63", "U+AB64", "U+AB65", "U+AB66", "U+AB67",
     "U+AB68", "U+AB70", "U+AB71", "U+AB72", "U+AB73", "U+AB74", "U+AB75",
     "U+AB76", "U+AB77", "U+AB78", "U+AB79", "U+AB7A", "U+AB7B", "U+AB7C",
     "U+AB7D", "U+AB7E", "U+AB7F", "ꮀ", "ꮁ", "ꮂ", "ꮃ", "ꮄ", "ꮅ", "ꮆ", "ꮇ",
     "ꮈ", "ꮉ", "ꮊ", "ꮋ", "ꮌ", "ꮍ", "ꮎ", "ꮏ", "ꮐ", "ꮑ", "ꮒ", "ꮓ", "ꮔ", "ꮕ",
     "ꮖ", "ꮗ", "ꮘ", "ꮙ", "ꮚ", "ꮛ", "ꮜ", "ꮝ", "ꮞ", "ꮟ", "ꮠ", "ꮡ", "ꮢ", "ꮣ",
     "ꮤ", "ꮥ", "ꮦ", "ꮧ", "ꮨ", "ꮩ", "ꮪ", "ꮫ", "ꮬ", "ꮭ", "ꮮ", "ꮯ", "ꮰ", "ꮱ",
     "ꮲ", "ꮳ", "ꮴ", "ꮵ", "ꮶ", "ꮷ", "ꮸ", "ꮹ", "ꮺ", "ꮻ", "ꮼ", "ꮽ", "ꮾ", "ꮿ",
     "U+FB00", "U+FB01", "U+FB02", "U+FB03", "U+FB04", "U+FB05", "U+FB06",
     "U+FB13", "U+FB14", "U+FB15", "U+FB16", "U+FB17", "U+FF21", "U+FF22",
     "U+FF23", "U+FF24", "U+FF25", "U+FF26", "U+FF27", "U+FF28", "U+FF29",
     "U+FF2A", "U+FF2B", "U+FF2C", "U+FF2D", "U+FF2E", "U+FF2F", "U+FF30",
     "U+FF31", "U+FF32", "U+FF33", "U+FF34", "U+FF35", "U+FF36", "U+FF37",
     "U+FF38", "U+FF39", "U+FF3A", "U+FF41", "U+FF42", "U+FF43", "U+FF44",
     "U+FF45", "U+FF46", "U+FF47", "U+FF48", "U+FF49", "U+FF4A", "U+FF4B",
     "U+FF4C", "U+FF4D", "U+FF4E", "U+FF4F", "U+FF50", "U+FF51", "U+FF52",
     "U+FF53", "U+FF54", "U+FF55", "U+FF56", "U+FF57", "U+FF58", "U+FF59",
     "U+FF5A", "U+10400", "U+10401", "U+10402", "U+10403", "U+10404",
     "U+10405", "U+10406", "U+10407", "U+10408", "U+10409", "U+1040A",
     "U+1040B", "U+1040C", "U+1040D", "U+1040E", "U+1040F", "U+10410",
     "U+10411", "U+10412", "U+10413", "U+10414", "U+10415", "U+10416",
     "U+10417", "U+10418", "U+10419", "U+1041A", "U+1041B", "U+1041C",
     "U+1041D", "U+1041E", "U+1041F", "U+10420", "U+10421", "U+10422",
     "U+10423", "U+10424", "U+10425", "U+10426", "U+10427", "U+10428",
     "U+10429", "U+1042A", "U+1042B", "U+1042C", "U+1042D", "U+1042E",
     "U+1042F", "U+10430", "U+10431", "U+10432", "U+10433", "U+10434",
     "U+10435", "U+10436", "U+10437", "U+10438", "U+10439", "U+1043A",
     "U+1043B", "U+1043C", "U+1043D", "U+1043E", "U+1043F", "U+10440",
     "U+10441", "U+10442", "U+10443", "U+10444", "U+10445", "U+10446",
     "U+10447", "U+10448", "U+10449", "U+1044A", "U+1044B", "U+1044C",
     "U+1044D", "U+1044E", "U+1044F", "U+104B0", "U+104B1", "U+104B2",
     "U+104B3", "U+104B4", "U+104B5", "U+104B6", "U+104B7", "U+104B8",
     "U+104B9", "U+104BA", "U+104BB", "U+104BC", "U+104BD", "U+104BE",
     "U+104BF", "U+104C0", "U+104C1", "U+104C2", "U+104C3", "U+104C4",
     "U+104C5", "U+104C6", "U+104C7", "U+104C8", "U+104C9", "U+104CA",
     "U+104CB", "U+104CC", "U+104CD", "U+104CE", "U+104CF", "U+104D0",
     "U+104D1", "U+104D2", "U+104D3", "U+104D8", "U+104D9", "U+104DA",
     "U+104DB", "U+104DC", "U+104DD", "U+104DE", "U+104DF", "U+104E0",
     "U+104E1", "U+104E2", "U+104E3", "U+104E4", "U+104E5", "U+104E6",
     "U+104E7", "U+104E8", "U+104E9", "U+104EA", "U+104EB", "U+104EC",
     "U+104ED", "U+104EE", "U+104EF", "U+104F0", "U+104F1", "U+104F2",
     "U+104F3", "U+104F4", "U+104F5", "U+104F6", "U+104F7", "U+104F8",
     "U+104F9", "U+104FA", "U+104FB", "U+10570", "U+10571", "U+10572",
     "U+10573", "U+10574", "U+10575", "U+10576", "U+10577", "U+10578",
     "U+10579", "U+1057A", "U+1057C", "U+1057D", "U+1057E", "U+1057F",
     "U+10580", "U+10581", "U+10582", "U+10583", "U+10584", "U+10585",
     "U+10586", "U+10587", "U+10588", "U+10589", "U+1058A", "U+1058C",
     "U+1058D", "U+1058E", "U+1058F", "U+10590", "U+10591", "U+10592",
     "U+10594", "U+10595", "U+10597", "U+10598", "U+10599", "U+1059A",
     "U+1059B", "U+1059C", "U+1059D", "U+1059E", "U+1059F", "U+105A0",
     "U+105A1", "U+105A3", "U+105A4", "U+105A5", "U+105A6", "U+105A7",
     "U+105A8", "U+105A9", "U+105AA", "U+105AB", "U+105AC", "U+105AD",
     "U+105AE", "U+105AF", "U+105B0", "U+105B1", "U+105B3", "U+105B4",
     "U+105B5", "U+105B6", "U+105B7", "U+105B8", "U+105B9", "U+105BB",
     "U+105BC", "U+10780", "U+10783", "U+10784", "U+10785", "U+10787",
     "U+10788", "U+10789", "U+1078A", "U+1078B", "U+1078C", "U+1078D",
     "U+1078E", "U+1078F", "U+10790", "U+10791", "U+10792", "U+10793",
     "U+10794", "U+10795", "U+10796", "U+10797", "U+10798", "U+10799",
     "U+1079A", "U+1079B", "U+1079C", "U+1079D", "U+1079E", "U+1079F",
     "U+107A0", "U+107A1", "U+107A2", "U+107A3", "U+107A4", "U+107A5",
     "U+107A6", "U+107A7", "U+107A8", "U+107A9", "U+107AA", "U+107AB",
     "U+107AC", "U+107AD", "U+107AE", "U+107AF", "U+107B0", "U+107B2",
     "U+107B3", "U+107B4", "U+107B5", "U+107B6", "U+107B7", "U+107B8",
     "U+107B9", "U+107BA", "U+10C80", "U+10C81", "U+10C82", "U+10C83",
     "U+10C84", "U+10C85", "U+10C86", "U+10C87", "U+10C88", "U+10C89",
     "U+10C8A", "U+10C8B", "U+10C8C", "U+10C8D", "U+10C8E", "U+10C8F",
     "U+10C90", "U+10C91", "U+10C92", "U+10C93", "U+10C94", "U+10C95",
     "U+10C96", "U+10C97", "U+10C98", "U+10C99", "U+10C9A", "U+10C9B",
     "U+10C9C", "U+10C9D", "U+10C9E", "U+10C9F", "U+10CA0", "U+10CA1",
     "U+10CA2", "U+10CA3", "U+10CA4", "U+10CA5", "U+10CA6", "U+10CA7",
     "U+10CA8", "U+10CA9", "U+10CAA", "U+10CAB", "U+10CAC", "U+10CAD",
     "U+10CAE", "U+10CAF", "U+10CB0", "U+10CB1", "U+10CB2", "U+10CC0",
     "U+10CC1", "U+10CC2", "U+10CC3", "U+10CC4", "U+10CC5", "U+10CC6",
     "U+10CC7", "U+10CC8", "U+10CC9", "U+10CCA", "U+10CCB", "U+10CCC",
     "U+10CCD", "U+10CCE", "U+10CCF", "U+10CD0", "U+10CD1", "U+10CD2",
     "U+10CD3", "U+10CD4", "U+10CD5", "U+10CD6", "U+10CD7", "U+10CD8",
     "U+10CD9", "U+10CDA", "U+10CDB", "U+10CDC", "U+10CDD", "U+10CDE",
     "U+10CDF", "U+10CE0", "U+10CE1", "U+10CE2", "U+10CE3", "U+10CE4",
     "U+10CE5", "U+10CE6", "U+10CE7", "U+10CE8", "U+10CE9", "U+10CEA",
     "U+10CEB", "U+10CEC", "U+10CED", "U+10CEE", "U+10CEF", "U+10CF0",
     "U+10CF1", "U+10CF2", "U+118A0", "U+118A1", "U+118A2", "U+118A3",
     "U+118A4", "U+118A5", "U+118A6", "U+118A7", "U+118A8", "U+118A9",
     "U+118AA", "U+118AB", "U+118AC", "U+118AD", "U+118AE", "U+118AF",
     "U+118B0", "U+118B1", "U+118B2", "U+118B3", "U+118B4", "U+118B5",
     "U+118B6", "U+118B7", "U+118B8", "U+118B9", "U+118BA", "U+118BB",
     "U+118BC", "U+118BD", "U+118BE", "U+118BF", "U+118C0", "U+118C1",
     "U+118C2", "U+118C3", "U+118C4", "U+118C5", "U+118C6", "U+118C7",
     "U+118C8", "U+118C9", "U+118CA", "U+118CB", "U+118CC", "U+118CD",
     "U+118CE", "U+118CF", "U+118D0", "U+118D1", "U+118D2", "U+118D3",
     "U+118D4", "U+118D5", "U+118D6", "U+118D7", "U+118D8", "U+118D9",
     "U+118DA", "U+118DB", "U+118DC", "U+118DD", "U+118DE", "U+118DF",
     "U+16E40", "U+16E41", "U+16E42", "U+16E43", "U+16E44", "U+16E45",
     "U+16E46", "U+16E47", "U+16E48", "U+16E49", "U+16E4A", "U+16E4B",
     "U+16E4C", "U+16E4D", "U+16E4E", "U+16E4F", "U+16E50", "U+16E51",
     "U+16E52", "U+16E53", "U+16E54", "U+16E55", "U+16E56", "U+16E57",
     "U+16E58", "U+16E59", "U+16E5A", "U+16E5B", "U+16E5C", "U+16E5D",
     "U+16E5E", "U+16E5F", "U+16E60", "U+16E61", "U+16E62", "U+16E63",
     "U+16E64", "U+16E65", "U+16E66", "U+16E67", "U+16E68", "U+16E69",
     "U+16E6A", "U+16E6B", "U+16E6C", "U+16E6D", "U+16E6E", "U+16E6F",
     "U+16E70", "U+16E71", "U+16E72", "U+16E73", "U+16E74", "U+16E75",
     "U+16E76", "U+16E77", "U+16E78", "U+16E79", "U+16E7A", "U+16E7B",
     "U+16E7C", "U+16E7D", "U+16E7E", "U+16E7F", "U+1D400", "U+1D401",
     "U+1D402", "U+1D403", "U+1D404", "U+1D405", "U+1D406", "U+1D407",
     "U+1D408", "U+1D409", "U+1D40A", "U+1D40B", "U+1D40C", "U+1D40D",
     "U+1D40E", "U+1D40F", "U+1D410", "U+1D411", "U+1D412", "U+1D413",
     "U+1D414", "U+1D415", "U+1D416", "U+1D417", "U+1D418", "U+1D419",
     "U+1D41A", "U+1D41B", "U+1D41C", "U+1D41D", "U+1D41E", "U+1D41F",
     "U+1D420", "U+1D421", "U+1D422", "U+1D423", "U+1D424", "U+1D425",
     "U+1D426", "U+1D427", "U+1D428", "U+1D429", "U+1D42A", "U+1D42B",
     "U+1D42C", "U+1D42D", "U+1D42E", "U+1D42F", "U+1D430", "U+1D431",
     "U+1D432", "U+1D433", "U+1D434", "U+1D435", "U+1D436", "U+1D437",
     "U+1D438", "U+1D439", "U+1D43A", "U+1D43B", "U+1D43C", "U+1D43D",
     "U+1D43E", "U+1D43F", "U+1D440", "U+1D441", "U+1D442", "U+1D443",
     "U+1D444", "U+1D445", "U+1D446", "U+1D447", "U+1D448", "U+1D449",
     "U+1D44A", "U+1D44B", "U+1D44C", "U+1D44D", "U+1D44E", "U+1D44F",
     "U+1D450", "U+1D451", "U+1D452", "U+1D453", "U+1D454", "U+1D456",
     "U+1D457", "U+1D458", "U+1D459", "U+1D45A", "U+1D45B", "U+1D45C",
     "U+1D45D", "U+1D45E", "U+1D45F", "U+1D460", "U+1D461", "U+1D462",
     "U+1D463", "U+1D464", "U+1D465", "U+1D466", "U+1D467", "U+1D468",
     "U+1D469", "U+1D46A", "U+1D46B", "U+1D46C", "U+1D46D", "U+1D46E",
     "U+1D46F", "U+1D470", "U+1D471", "U+1D472", "U+1D473", "U+1D474",
     "U+1D475", "U+1D476", "U+1D477", "U+1D478", "U+1D479", "U+1D47A",
     "U+1D47B", "U+1D47C", "U+1D47D", "U+1D47E", "U+1D47F", "U+1D480",
     "U+1D481", "U+1D482", "U+1D483", "U+1D484", "U+1D485", "U+1D486",
     "U+1D487", "U+1D488", "U+1D489", "U+1D48A", "U+1D48B", "U+1D48C",
     "U+1D48D", "U+1D48E", "U+1D48F", "U+1D490", "U+1D491", "U+1D492",
     "U+1D493", "U+1D494", "U+1D495", "U+1D496", "U+1D497", "U+1D498",
     "U+1D499", "U+1D49A", "U+1D49B", "U+1D49C", "U+1D49E", "U+1D49F",
     "U+1D4A2", "U+1D4A5", "U+1D4A6", "U+1D4A9", "U+1D4AA", "U+1D4AB",
     "U+1D4AC", "U+1D4AE", "U+1D4AF", "U+1D4B0", "U+1D4B1", "U+1D4B2",
     "U+1D4B3", "U+1D4B4", "U+1D4B5", "U+1D4B6", "U+1D4B7", "U+1D4B8",
     "U+1D4B9", "U+1D4BB", "U+1D4BD", "U+1D4BE", "U+1D4BF", "U+1D4C0",
     "U+1D4C1", "U+1D4C2", "U+1D4C3", "U+1D4C5", "U+1D4C6", "U+1D4C7",
     "U+1D4C8", "U+1D4C9", "U+1D4CA", "U+1D4CB", "U+1D4CC", "U+1D4CD",
     "U+1D4CE", "U+1D4CF", "U+1D4D0", "U+1D4D1", "U+1D4D2", "U+1D4D3",
     "U+1D4D4", "U+1D4D5", "U+1D4D6", "U+1D4D7", "U+1D4D8", "U+1D4D9",
     "U+1D4DA", "U+1D4DB", "U+1D4DC", "U+1D4DD", "U+1D4DE", "U+1D4DF",
     "U+1D4E0", "U+1D4E1", "U+1D4E2", "U+1D4E3", "U+1D4E4", "U+1D4E5",
     "U+1D4E6", "U+1D4E7", "U+1D4E8", "U+1D4E9", "U+1D4EA", "U+1D4EB",
     "U+1D4EC", "U+1D4ED", "U+1D4EE", "U+1D4EF", "U+1D4F0", "U+1D4F1",
     "U+1D4F2", "U+1D4F3", "U+1D4F4", "U+1D4F5", "U+1D4F6", "U+1D4F7",
     "U+1D4F8", "U+1D4F9", "U+1D4FA", "U+1D4FB", "U+1D4FC", "U+1D4FD",
     "U+1D4FE", "U+1D4FF", "U+1D500", "U+1D501", "U+1D502", "U+1D503",
     "U+1D504", "U+1D505", "U+1D507", "U+1D508", "U+1D509", "U+1D50A",
     "U+1D50D", "U+1D50E", "U+1D50F", "U+1D510", "U+1D511", "U+1D512",
     "U+1D513", "U+1D514", "U+1D516", "U+1D517", "U+1D518", "U+1D519",
     "U+1D51A", "U+1D51B", "U+1D51C", "U+1D51E", "U+1D51F", "U+1D520",
     "U+1D521", "U+1D522", "U+1D523", "U+1D524", "U+1D525", "U+1D526",
     "U+1D527", "U+1D528", "U+1D529", "U+1D52A", "U+1D52B", "U+1D52C",
     "U+1D52D", "U+1D52E", "U+1D52F", "U+1D530", "U+1D531", "U+1D532",
     "U+1D533", "U+1D534", "U+1D535", "U+1D536", "U+1D537", "U+1D538",
     "U+1D539", "U+1D53B", "U+1D53C", "U+1D53D", "U+1D53E", "U+1D540",
     "U+1D541", "U+1D542", "U+1D543", "U+1D544", "U+1D546", "U+1D54A",
     "U+1D54B", "U+1D54C", "U+1D54D", "U+1D54E", "U+1D54F", "U+1D550",
     "U+1D552", "U+1D553", "U+1D554", "U+1D555", "U+1D556", "U+1D557",
     "U+1D558", "U+1D559", "U+1D55A", "U+1D55B", "U+1D55C", "U+1D55D",
     "U+1D55E", "U+1D55F", "U+1D560", "U+1D561", "U+1D562", "U+1D563",
     "U+1D564", "U+1D565", "U+1D566", "U+1D567", "U+1D568", "U+1D569",
     "U+1D56A", "U+1D56B", "U+1D56C", "U+1D56D", "U+1D56E", "U+1D56F",
     "U+1D570", "U+1D571", "U+1D572", "U+1D573", "U+1D574", "U+1D575",
     "U+1D576", "U+1D577", "U+1D578", "U+1D579", "U+1D57A", "U+1D57B",
     "U+1D57C", "U+1D57D", "U+1D57E", "U+1D57F", "U+1D580", "U+1D581",
     "U+1D582", "U+1D583", "U+1D584", "U+1D585", "U+1D586", "U+1D587",
     "U+1D588", "U+1D589", "U+1D58A", "U+1D58B", "U+1D58C", "U+1D58D",
     "U+1D58E", "U+1D58F", "U+1D590", "U+1D591", "U+1D592", "U+1D593",
     "U+1D594", "U+1D595", "U+1D596", "U+1D597", "U+1D598", "U+1D599",
     "U+1D59A", "U+1D59B", "U+1D59C", "U+1D59D", "U+1D59E", "U+1D59F",
     "U+1D5A0", "U+1D5A1", "U+1D5A2", "U+1D5A3", "U+1D5A4", "U+1D5A5",
     "U+1D5A6", "U+1D5A7", "U+1D5A8", "U+1D5A9", "U+1D5AA", "U+1D5AB",
     "U+1D5AC", "U+1D5AD", "U+1D5AE", "U+1D5AF", "U+1D5B0", "U+1D5B1",
     "U+1D5B2", "U+1D5B3", "U+1D5B4", "U+1D5B5", "U+1D5B6", "U+1D5B7",
     "U+1D5B8", "U+1D5B9", "U+1D5BA", "U+1D5BB", "U+1D5BC", "U+1D5BD",
     "U+1D5BE", "U+1D5BF", "U+1D5C0", "U+1D5C1", "U+1D5C2", "U+1D5C3",
     "U+1D5C4", "U+1D5C5", "U+1D5C6", "U+1D5C7", "U+1D5C8", "U+1D5C9",
     "U+1D5CA", "U+1D5CB", "U+1D5CC", "U+1D5CD", "U+1D5CE", "U+1D5CF",
     "U+1D5D0", "U+1D5D1", "U+1D5D2", "U+1D5D3", "U+1D5D4", "U+1D5D5",
     "U+1D5D6", "U+1D5D7", "U+1D5D8", "U+1D5D9", "U+1D5DA", "U+1D5DB",
     "U+1D5DC", "U+1D5DD", "U+1D5DE", "U+1D5DF", "U+1D5E0", "U+1D5E1",
     "U+1D5E2", "U+1D5E3", "U+1D5E4", "U+1D5E5", "U+1D5E6", "U+1D5E7",
     "U+1D5E8", "U+1D5E9", "U+1D5EA", "U+1D5EB", "U+1D5EC", "U+1D5ED",
     "U+1D5EE", "U+1D5EF", "U+1D5F0", "U+1D5F1", "U+1D5F2", "U+1D5F3",
     "U+1D5F4", "U+1D5F5", "U+1D5F6", "U+1D5F7", "U+1D5F8", "U+1D5F9",
     "U+1D5FA", "U+1D5FB", "U+1D5FC", "U+1D5FD", "U+1D5FE", "U+1D5FF",
     "U+1D600", "U+1D601", "U+1D602", "U+1D603", "U+1D604", "U+1D605",
     "U+1D606", "U+1D607", "U+1D608", "U+1D609", "U+1D60A", "U+1D60B",
     "U+1D60C", "U+1D60D", "U+1D60E", "U+1D60F", "U+1D610", "U+1D611",
     "U+1D612", "U+1D613", "U+1D614", "U+1D615", "U+1D616", "U+1D617",
     "U+1D618", "U+1D619", "U+1D61A", "U+1D61B", "U+1D61C", "U+1D61D",
     "U+1D61E", "U+1D61F", "U+1D620", "U+1D621", "U+1D622", "U+1D623",
     "U+1D624", "U+1D625", "U+1D626", "U+1D627", "U+1D628", "U+1D629",
     "U+1D62A", "U+1D62B", "U+1D62C", "U+1D62D", "U+1D62E", "U+1D62F",
     "U+1D630", "U+1D631", "U+1D632", "U+1D633", "U+1D634", "U+1D635",
     "U+1D636", "U+1D637", "U+1D638", "U+1D639", "U+1D63A", "U+1D63B",
     "U+1D63C", "U+1D63D", "U+1D63E", "U+1D63F", "U+1D640", "U+1D641",
     "U+1D642", "U+1D643", "U+1D644", "U+1D645", "U+1D646", "U+1D647",
     "U+1D648", "U+1D649", "U+1D64A", "U+1D64B", "U+1D64C", "U+1D64D",
     "U+1D64E", "U+1D64F", "U+1D650", "U+1D651", "U+1D652", "U+1D653",
     "U+1D654", "U+1D655", "U+1D656", "U+1D657", "U+1D658", "U+1D659",
     "U+1D65A", "U+1D65B", "U+1D65C", "U+1D65D", "U+1D65E", "U+1D65F",
     "U+1D660", "U+1D661", "U+1D662", "U+1D663", "U+1D664", "U+1D665",
     "U+1D666", "U+1D667", "U+1D668", "U+1D669", "U+1D66A", "U+1D66B",
     "U+1D66C", "U+1D66D", "U+1D66E", "U+1D66F", "U+1D670", "U+1D671",
     "U+1D672", "U+1D673", "U+1D674", "U+1D675", "U+1D676", "U+1D677",
     "U+1D678", "U+1D679", "U+1D67A", "U+1D67B", "U+1D67C", "U+1D67D",
     "U+1D67E", "U+1D67F", "U+1D680", "U+1D681", "U+1D682", "U+1D683",
     "U+1D684", "U+1D685", "U+1D686", "U+1D687", "U+1D688", "U+1D689",
     "U+1D68A", "U+1D68B", "U+1D68C", "U+1D68D", "U+1D68E", "U+1D68F",
     "U+1D690", "U+1D691", "U+1D692", "U+1D693", "U+1D694", "U+1D695",
     "U+1D696", "U+1D697", "U+1D698", "U+1D699", "U+1D69A", "U+1D69B",
     "U+1D69C", "U+1D69D", "U+1D69E", "U+1D69F", "U+1D6A0", "U+1D6A1",
     "U+1D6A2", "U+1D6A3", "U+1D6A4", "U+1D6A5", "U+1D6A8", "U+1D6A9",
     "U+1D6AA", "U+1D6AB", "U+1D6AC", "U+1D6AD", "U+1D6AE", "U+1D6AF",
     "U+1D6B0", "U+1D6B1", "U+1D6B2", "U+1D6B3", "U+1D6B4", "U+1D6B5",
     "U+1D6B6", "U+1D6B7", "U+1D6B8", "U+1D6B9", "U+1D6BA", "U+1D6BB",
     "U+1D6BC", "U+1D6BD", "U+1D6BE", "U+1D6BF", "U+1D6C0", "U+1D6C2",
     "U+1D6C3", "U+1D6C4", "U+1D6C5", "U+1D6C6", "U+1D6C7", "U+1D6C8",
     "U+1D6C9", "U+1D6CA", "U+1D6CB", "U+1D6CC", "U+1D6CD", "U+1D6CE",
     "U+1D6CF", "U+1D6D0", "U+1D6D1", "U+1D6D2", "U+1D6D3", "U+1D6D4",
     "U+1D6D5", "U+1D6D6", "U+1D6D7", "U+1D6D8", "U+1D6D9", "U+1D6DA",
     "U+1D6DC", "U+1D6DD", "U+1D6DE", "U+1D6DF", "U+1D6E0", "U+1D6E1",
     "U+1D6E2", "U+1D6E3", "U+1D6E4", "U+1D6E5", "U+1D6E6", "U+1D6E7",
     "U+1D6E8", "U+1D6E9", "U+1D6EA", "U+1D6EB", "U+1D6EC", "U+1D6ED",
     "U+1D6EE", "U+1D6EF", "U+1D6F0", "U+1D6F1", "U+1D6F2", "U+1D6F3",
     "U+1D6F4", "U+1D6F5", "U+1D6F6", "U+1D6F7", "U+1D6F8", "U+1D6F9",
     "U+1D6FA", "U+1D6FC", "U+1D6FD", "U+1D6FE", "U+1D6FF", "U+1D700",
     "U+1D701", "U+1D702", "U+1D703", "U+1D704", "U+1D705", "U+1D706",
     "U+1D707", "U+1D708", "U+1D709", "U+1D70A", "U+1D70B", "U+1D70C",
     "U+1D70D", "U+1D70E", "U+1D70F", "U+1D710", "U+1D711", "U+1D712",
     "U+1D713", "U+1D714", "U+1D716", "U+1D717", "U+1D718", "U+1D719",
     "U+1D71A", "U+1D71B", "U+1D71C", "U+1D71D", "U+1D71E", "U+1D71F",
     "U+1D720", "U+1D721", "U+1D722", "U+1D723", "U+1D724", "U+1D725",
     "U+1D726", "U+1D727", "U+1D728", "U+1D729", "U+1D72A", "U+1D72B",
     "U+1D72C", "U+1D72D", "U+1D72E", "U+1D72F", "U+1D730", "U+1D731",
     "U+1D732", "U+1D733", "U+1D734", "U+1D736", "U+1D737", "U+1D738",
     "U+1D739", "U+1D73A", "U+1D73B", "U+1D73C", "U+1D73D", "U+1D73E",
     "U+1D73F", "U+1D740", "U+1D741", "U+1D742", "U+1D743", "U+1D744",
     "U+1D745", "U+1D746", "U+1D747", "U+1D748", "U+1D749", "U+1D74A",
     "U+1D74B", "U+1D74C", "U+1D74D", "U+1D74E", "U+1D750", "U+1D751",
     "U+1D752", "U+1D753", "U+1D754", "U+1D755", "U+1D756", "U+1D757",
     "U+1D758", "U+1D759", "U+1D75A", "U+1D75B", "U+1D75C", "U+1D75D",
     "U+1D75E", "U+1D75F", "U+1D760", "U+1D761", "U+1D762", "U+1D763",
     "U+1D764", "U+1D765", "U+1D766", "U+1D767", "U+1D768", "U+1D769",
     "U+1D76A", "U+1D76B", "U+1D76C", "U+1D76D", "U+1D76E", "U+1D770",
     "U+1D771", "U+1D772", "U+1D773", "U+1D774", "U+1D775", "U+1D776",
     "U+1D777", "U+1D778", "U+1D779", "U+1D77A", "U+1D77B", "U+1D77C",
     "U+1D77D", "U+1D77E", "U+1D77F", "U+1D780", "U+1D781", "U+1D782",
     "U+1D783", "U+1D784", "U+1D785", "U+1D786", "U+1D787", "U+1D788",
     "U+1D78A", "U+1D78B", "U+1D78C", "U+1D78D", "U+1D78E", "U+1D78F",
     "U+1D790", "U+1D791", "U+1D792", "U+1D793", "U+1D794", "U+1D795",
     "U+1D796", "U+1D797", "U+1D798", "U+1D799", "U+1D79A", "U+1D79B",
     "U+1D79C", "U+1D79D", "U+1D79E", "U+1D79F", "U+1D7A0", "U+1D7A1",
     "U+1D7A2", "U+1D7A3", "U+1D7A4", "U+1D7A5", "U+1D7A6", "U+1D7A7",
     "U+1D7A8", "U+1D7AA", "U+1D7AB", "U+1D7AC", "U+1D7AD", "U+1D7AE",
     "U+1D7AF", "U+1D7B0", "U+1D7B1", "U+1D7B2", "U+1D7B3", "U+1D7B4",
     "U+1D7B5", "U+1D7B6", "U+1D7B7", "U+1D7B8", "U+1D7B9", "U+1D7BA",
     "U+1D7BB", "U+1D7BC", "U+1D7BD", "U+1D7BE", "U+1D7BF", "U+1D7C0",
     "U+1D7C1", "U+1D7C2", "U+1D7C4", "U+1D7C5", "U+1D7C6", "U+1D7C7",
     "U+1D7C8", "U+1D7C9", "U+1D7CA", "U+1D7CB", "U+1DF00", "U+1DF01",
     "U+1DF02", "U+1DF03", "U+1DF04", "U+1DF05", "U+1DF06", "U+1DF07",
     "U+1DF08", "U+1DF09", "U+1DF0B", "U+1DF0C", "U+1DF0D", "U+1DF0E",
     "U+1DF0F", "U+1DF10", "U+1DF11", "U+1DF12", "U+1DF13", "U+1DF14",
     "U+1DF15", "U+1DF16", "U+1DF17", "U+1DF18", "U+1DF19", "U+1DF1A",
     "U+1DF1B", "U+1DF1C", "U+1DF1D", "U+1DF1E", "U+1E900", "U+1E901",
     "U+1E902", "U+1E903", "U+1E904", "U+1E905", "U+1E906", "U+1E907",
     "U+1E908", "U+1E909", "U+1E90A", "U+1E90B", "U+1E90C", "U+1E90D",
     "U+1E90E", "U+1E90F", "U+1E910", "U+1E911", "U+1E912", "U+1E913",
     "U+1E914", "U+1E915", "U+1E916", "U+1E917", "U+1E918", "U+1E919",
     "U+1E91A", "U+1E91B", "U+1E91C", "U+1E91D", "U+1E91E", "U+1E91F",
     "U+1E920", "U+1E921", "U+1E922", "U+1E923", "U+1E924", "U+1E925",
     "U+1E926", "U+1E927", "U+1E928", "U+1E929", "U+1E92A", "U+1E92B",
     "U+1E92C", "U+1E92D", "U+1E92E", "U+1E92F", "U+1E930", "U+1E931",
     "U+1E932", "U+1E933", "U+1E934", "U+1E935", "U+1E936", "U+1E937",
     "U+1E938", "U+1E939", "U+1E93A", "U+1E93B", "U+1E93C", "U+1E93D",
     "U+1E93E", "U+1E93F", "U+1E940", "U+1E941", "U+1E942", "U+1E943",
     "U+1F130", "U+1F131", "U+1F132", "U+1F133", "U+1F134", "U+1F135",
     "U+1F136", "U+1F137", "U+1F138", "U+1F139", "U+1F13A", "U+1F13B",
     "U+1F13C", "U+1F13D", "U+1F13E", "U+1F13F", "U+1F140", "U+1F141",
     "U+1F142", "U+1F143", "U+1F144", "U+1F145", "U+1F146", "U+1F147",
     "U+1F148", "U+1F149", "U+1F150", "U+1F151", "U+1F152", "U+1F153",
     "U+1F154", "U+1F155", "U+1F156", "U+1F157", "U+1F158", "U+1F159",
     "U+1F15A", "U+1F15B", "U+1F15C", "U+1F15D", "U+1F15E", "U+1F15F",
     "U+1F160", "U+1F161", "U+1F162", "U+1F163", "U+1F164", "U+1F165",
     "U+1F166", "U+1F167", "U+1F168", "U+1F169", "U+1F170", "U+1F171",
     "U+1F172", "U+1F173", "U+1F174", "U+1F175", "U+1F176", "U+1F177",
     "U+1F178", "U+1F179", "U+1F17A", "U+1F17B", "U+1F17C", "U+1F17D",
     "U+1F17E", "U+1F17F", "U+1F180", "U+1F181", "U+1F182", "U+1F183",
     "U+1F184", "U+1F185", "U+1F186", "U+1F187", "U+1F188", "U+1F189"}

LowerChar_AsciiOnly(c) ==
    IF c \in {"A", "B", "C", "D", "E", "F", "G", "H", "I", "J", "K", "L", "M",
              "N", "O", "P", "Q", "R", "S", "T", "U", "V", "W", "X", "Y", "Z"}
    THEN <<UpperToLower[c]>>
    ELSE <<c>>

\* str.lower() of one character on its own: the only character with a lower
\* case of two characters is U+0130
LowerChar(c) ==
    IF c \in DOMAIN UpperToLower THEN <<UpperToLower[c]>>
    ELSE IF c = "U+0130" THEN <<"i", "U+0307">>
    ELSE <<c>>

\* Whether s[i], a capital sigma, stands at the end of a word: a cased
\* character comes before it and none after it, looking through
\* case-ignorable characters (handle_capital_sigma)
FinalSigma(s, i) ==
    LET before == {j \in 1..(i - 1) : s[j] \notin CaseIgnorable}
        after == {j \in (i + 1)..Len(s) : s[j] \notin CaseIgnorable}
    IN  /\ before /= {}
        /\ s[CHOOSE j \in before : \A k \in before : k <= j] \in Cased
        /\ \/ after = {}
           \/ s[CHOOSE j \in after : \A k \in after : j <= k] \notin Cased

Lower_AsciiOnly(s) ==
    [i \in 1..Len(s) |->
        IF s[i] \in {"A", "B", "C", "D", "E", "F", "G", "H", "I", "J", "K",
                     "L", "M", "N", "O", "P", "Q", "R", "S", "T", "U", "V",
                     "W", "X", "Y", "Z"}
        THEN UpperToLower[s[i]]
        ELSE s[i]]

\* str.lower()
Lower(s) ==
    LET lowered[i \in 0..Len(s)] ==
            IF i = 0 THEN <<>>
            ELSE lowered[i - 1] \o
                 (IF s[i] = "Σ" /\ FinalSigma(s, i) THEN <<"ς">>
                  ELSE LowerChar(s[i]))
    IN  lowered[Len(s)]

\* needle in hay (substring test; the empty needle is in every string)
Contains(needle, hay) ==
    \E i \in 0..(Len(hay) - Len(needle)) :
        SubSeq(hay, i + 1, i + Len(needle)) = needle

\* hashlib.md5(url.encode()).hexdigest() on the URLs of the model
MD5Table ==
    [u \in {"", "u1", "u2", "b1", "b2", "b3", "b4", "b5", "b6", "b7", "b8", "b9"} |->
        CASE u = ""   -> "d41d8cd98f00b204e9800998ecf8427e"
          [] u = "u1" -> "e4774cdda0793f86414e8b9140bb6db4"
          [] u = "u2" -> "270c1b084f3f146eb5787075158d9c53"
          [] u = "b1" -> "edbab45572c72a5d9440b40bcc0500c0"
          [] u = "b2" -> "fbfba2e45c2045dc5cab22a5afe83d9d"
          [] u = "b3" -> "7a6f150b83091ce20c89368641f9a137"
          [] u = "b4" -> "3dfe563103ab11bec75bb5081e7a1dbe"
          [] u = "b5" -> "2283335d8d12b21001439091e74f5028"
          [] u = "b6" -> "528953727ef3a4e1c441c6078534c39b"
          [] u = "b7" -> "d8708ecb9a1e7ba172c83d8360c57e7d"
          [] u = "b8" -> "75d99404a02e2bc993a6bac34c60d679"
          [] u = "b9" -> "37cc8552b35560a7b91cd1f47df89cae"]

generate_external_id(url) == MD5Table[url]

\* Values carry their Python type in the field "type", which is what
\* isinstance reads.
Exception(kind) == [type |-> "Exception", kind |-> kind]

IsException(result) ==
    /\ "type" \in DOMAIN result
    /\ result.type = "Exception"

List(items) == [type |-> "list", items |-> items]

Number(n) == [type |-> "number", value |-> n]

Str(s) == [type |-> "str", value |-> s]

----------------------------------------------------------------------------
(* Preferences.                                                            *)

\* Fields run_discovery reads itself, in the order it reads them.
EagerFields ==
    <<"discovery.exclude_keywords", "location.dealbreakers",
      "scoring.minimum_score_to_surface", "search_queries">>

\* Fields only _scoring_context reads.
ScoringFields ==
    {"target_titles", "location.requirement",
     "compensation.minimum_base_salary", "company.preferred_sizes",
     "company.industries_preferred", "scoring.weights"}

RequiredFields == {EagerFields[i] : i \in 1..Len(EagerFields)} \cup ScoringFields

FullPreferences ==
    [f \in RequiredFields |->
        CASE f = "discovery.exclude_keywords" -> {<<"V", "P">>, <<"G", "é">>}
          [] f = "location.dealbreakers" -> {<<"N", "Y">>, <<"ö">>}
          [] f = "scoring.minimum_score_to_surface" -> 80
          [] f = "search_queries" -> <<"PM remote", "Senior PM">>
          [] OTHER -> "configured"]

Without(d, key) == [k \in DOMAIN d \ {key} |-> d[k]]

\* The complete PreferenceSet and every one with a single field missing.
PreferenceSets ==
    {FullPreferences} \cup {Without(FullPreferences, f) : f \in RequiredFields}

\* _scoring_context: raises KeyError when a field it reads is missing.
scoring_context_raises(prefs) == ~(ScoringFields \subseteq DOMAIN prefs)

----------------------------------------------------------------------------
(* Listings.                                                               *)

PM == <<"P", "M">>
SVP == <<"S", "V", "P">>
Remote == <<"R", "e", "m", "o", "t", "e">>

\* The catalogue of listings the search provider may return.
Catalogue ==
    { [title |-> PM, location |-> <<"U", "S">>, description |-> <<>>,
       apply_options |-> <<[link |-> "u1"]>>, link |-> "u2",
       detected_extensions |-> [posted_at |-> "3 days ago"]],
      [title |-> SVP, location |-> <<"U", "S">>, description |-> Remote,
       link |-> "u1"],
      [title |-> PM, location |-> <<"N", "Y">>, description |-> Remote,
       apply_options |-> <<[title |-> "Apply"]>>, link |-> "u2"],
      [title |-> PM, location |-> <<"N", "Y">>, description |-> <<>>],
      [title |-> <<"p", "m">>, apply_options |-> <<>>, link |-> ""],
      [title |-> <<"D", "G", "É">>, location |-> <<"U", "S">>,
       description |-> Remote, link |-> "u1"] }

\* The i-th listing of the bulk provider: distinct URLs, all acceptable.
BulkUrl(i) ==
    CASE i = 1 -> "b1" [] i = 2 -> "b2" [] i = 3 -> "b3" [] i = 4 -> "b4"
      [] i = 5 -> "b5" [] i = 6 -> "b6" [] i = 7 -> "b7" [] i = 8 -> "b8"
      [] OTHER -> "b9"

BulkJob(i) ==
    [title |-> PM, location |-> Remote, link |-> BulkUrl(i),
     detected_extensions |-> [posted_at |-> "3 days ago"]]

BulkJobs == {BulkJob(i) : i \in 1..MaxBulk}

----------------------------------------------------------------------------
(* The environment: search provider and scoring oracle.                    *)

SeqsUpTo(S, n) == UNION {[1..k -> S] : k \in 0..n}

\* What one search call produces: a list of at most n listings, or a
\* failure.
CatalogueResults(n) ==
    {List(l) : l \in SeqsUpTo(Catalogue, n)} \cup {Exception("ProviderError")}

ResultLen(r) == IF IsException(r) THEN 0 ELSE Len(r.items)

\* One outcome per configured query (two queries are configured), with at
\* most total listings in all.
CatalogueOutcomes(total) ==
    UNION {{<<r1, r2>> : r2 \in CatalogueResults(total - ResultLen(r1))} :
              r1 \in CatalogueResults(total)}

\* The bulk provider: MaxBulk listings split over the two queries.
BulkOutcomes ==
    {<<List([i \in 1..j |-> BulkJob(i)]),
       List([i \in 1..(MaxBulk - j) |-> BulkJob(j + i)])>> :
        j \in {MaxBulk \div 2}}

\* Decoded JSON values that hold a numeric score and a breakdown.
ScoreDict(n) == [overall_score |-> Number(n), breakdown |-> "b"]

\* Decoded JSON values of any shape: no score, a score that is no number,
\* no breakdown, a score above 1.
AnyDicts ==
    { [reasoning |-> "r"],
      [overall_score |-> Str("high"), breakdown |-> "b"],
      [overall_score |-> Number(91)] }
    \cup {ScoreDict(n) : n \in {50, 80, 91, 150}}

NotJson == [json |-> FALSE]

Json(v) == [json |-> TRUE, value |-> v]

\* The call itself fails.
Raise == [raises |-> TRUE]

\* An oracle that always answers as documented.
ScoreAnswers == {Json(ScoreDict(n)) : n \in {50, 80, 91}}

\* An oracle that may fail or answer anything.
AnyAnswers == {Raise, NotJson} \cup {Json(d) : d \in AnyDicts}

\* The oracle of the bulk provider's runs: it may fail.
BulkAnswers == {Raise} \cup {Json(ScoreDict(n)) : n \in {80, 91}}

\* What an oracle of each kind may do on a call.
Answers(kind) ==
    CASE kind = "documented" -> ScoreAnswers
      [] kind = "anything" -> AnyAnswers
      [] kind = "bulk" -> BulkAnswers

\* The text of a response: the payload alone, or wrapped in a code fence.
Texts(payload) == {<<payload>>, <<"fence json", payload, "fence">>}

\* What the oracle may do: raise, or answer with a text.
OracleResponses(answers) ==
    UNION {IF a = Raise
           THEN {a}
           ELSE {[raises |-> FALSE, text |-> t] : t \in Texts(a)} :
           a \in answers}

----------------------------------------------------------------------------
(* score_job: the parsing of the oracle's response.                        *)

\* re.search(fence) and match.group(1): the text inside the fence, if any.
StripFence(text) == IF Len(text) = 3 THEN <<text[2]>> ELSE text

\* json.loads(text.strip())
json_loads(text) ==
    IF text[1].json THEN text[1].value ELSE Exception("JSONDecodeError")

\* The value or exception of score_job for one response.
score_job(response) ==
    IF response.raises
    THEN Exception("APIError")
    ELSE json_loads(StripFence(response.text))

----------------------------------------------------------------------------
(* Deduplication and prefilter.                                            *)

\* any(kw in title for kw in exclude_keywords), exclude_keywords lower-cased
TitleExcluded(job, exclude_keywords) ==
    \E kw \in exclude_keywords : Contains(kw, Lower(Get(job, "title", <<>>)))

\* any(db in location ...) and "remote" not in description
LocationDealbreaker(job, dealbreakers) ==
    /\ \E db \in dealbreakers : Contains(db, Lower(Get(job, "location", <<>>)))
    /\ ~Contains(<<"r", "e", "m", "o", "t", "e">>,
                 Lower(Get(job, "description", <<>>)))

\* True if the job is kept, False if it is dropped without scoring.
prefilter(job, exclude_keywords, dealbreakers) ==
    IF TitleExcluded(job, exclude_keywords)
    THEN FALSE
    ELSE IF LocationDealbreaker(job, dealbreakers)
         THEN FALSE
         ELSE TRUE

\* {k.lower() for k in ...}
LowerSet(keywords) == {Lower(k) : k \in keywords}

\* Mutant of CanonicalUrl: no fallback to the generic link when the first
\* apply option has no link.
CanonicalUrl_NoFallback(job) ==
    LET apply_options == Get(job, "apply_options", <<>>)
    IN  IF apply_options /= <<>>
        THEN Get(apply_options[1], "link", "")
        ELSE Get(job, "link", "")

\* The URL the dedup key is computed from (lines 168-173).
CanonicalUrl(job) ==
    LET apply_options == Get(job, "apply_options", <<>>)
        first == IF apply_options /= <<>>
                 THEN Get(apply_options[1], "link", "")
                 ELSE Get(job, "link", "")
    IN  IF first /= "" THEN first ELSE Get(job, "link", "")

\* The candidate tuple appended at line 179.
Candidate(job) ==
    [external_id |-> generate_external_id(CanonicalUrl(job)),
     url |-> CanonicalUrl(job), job |-> job]

\* Mutant of DedupJob: the id is never added to seen.
DedupJob_SeenNotUpdated(acc, job, prefs) ==
    IF generate_external_id(CanonicalUrl(job)) \in acc.seen
    THEN acc
    ELSE [seen |-> acc.seen,
          candidates |->
            IF prefilter(job,
                         LowerSet(prefs["discovery.exclude_keywords"]),
                         LowerSet(prefs["location.dealbreakers"]))
            THEN Append(acc.candidates, Candidate(job))
            ELSE acc.candidates]

\* Mutant of DedupJob: the external_id is recorded only for a listing the
\* prefilter keeps (the prefilter is applied before deduplication).
DedupJob_SeenOnlyWhenKept(acc, job, prefs) ==
    LET external_id == generate_external_id(CanonicalUrl(job))
    IN  IF external_id \in acc.seen
        THEN acc
        ELSE IF prefilter(job,
                          LowerSet(prefs["discovery.exclude_keywords"]),
                          LowerSet(prefs["location.dealbreakers"]))
             THEN [seen |-> acc.seen \cup {external_id},
                   candidates |-> Append(acc.candidates, Candidate(job))]
             ELSE acc

\* Mutant of DedupJob: a listing with a seen id replaces the one kept.
DedupJob_KeepsLast(acc, job, prefs) ==
    LET id == generate_external_id(CanonicalUrl(job))
        others == SelectSeq(acc.candidates, LAMBDA c : c.external_id /= id)
    IN  [seen |-> acc.seen \cup {id},
         candidates |->
            IF prefilter(job,
                         LowerSet(prefs["discovery.exclude_keywords"]),
                         LowerSet(prefs["location.dealbreakers"]))
            THEN Append(others, Candidate(job))
            ELSE others]

\* Mutant of DedupJob: a listing with an empty canonical URL is a special
\* case, never taken for a duplicate.
DedupJob_EmptyUrlNeverDuplicate(acc, job, prefs) ==
    LET external_id == generate_external_id(CanonicalUrl(job))
    IN  IF CanonicalUrl(job) /= "" /\ external_id \in acc.seen
        THEN acc
        ELSE [seen |-> acc.seen \cup {external_id},
              candidates |->
                IF prefilter(job,
                             LowerSet(prefs["discovery.exclude_keywords"]),
                             LowerSet(prefs["location.dealbreakers"]))
                THEN Append(acc.candidates, Candidate(job))
                ELSE acc.candidates]

\* One iteration of the inner loop (lines 167-179) on the pair
\* acc = [seen, candidates].
DedupJob(acc, job, prefs) ==
    LET external_id == generate_external_id(CanonicalUrl(job))
    IN  IF external_id \in acc.seen
        THEN acc
        ELSE [seen |-> acc.seen \cup {external_id},
              candidates |->
                IF prefilter(job,
                             LowerSet(prefs["discovery.exclude_keywords"]),
                             LowerSet(prefs["location.dealbreakers"]))
                THEN Append(acc.candidates, Candidate(job))
                ELSE acc.candidates]

\* The inner loop (lines 167-179) from the i-th listing on. Here and in
\* the loops below, step is the value of the loop's variables after one
\* iteration, computed once before the next iteration starts.
RECURSIVE DedupJobs(_, _, _, _)
DedupJobs(acc, jobs, i, prefs) ==
    IF i > Len(jobs)
    THEN acc
    ELSE CHOOSE out \in {DedupJobs(step, jobs, i + 1, prefs) :
                             step \in {DedupJob(acc, jobs[i], prefs)}} : TRUE

\* The body of the outer loop for one gathered result (lines 165-179).
DedupResult(acc, result, prefs) ==
    IF IsException(result)
    THEN acc
    ELSE DedupJobs(acc, result.items, 1, prefs)

\* Mutant of Deduplicate: the loop stops at the first failed query.
RECURSIVE Deduplicate_StopsAtFailure(_, _, _, _)
Deduplicate_StopsAtFailure(acc, results, i, prefs) ==
    IF i > Len(results) \/ IsException(results[i])
    THEN acc
    ELSE Deduplicate_StopsAtFailure(DedupResult(acc, results[i], prefs),
                                    results, i + 1, prefs)

\* The outer loop (lines 162-179) from the i-th gathered result on.
RECURSIVE Deduplicate(_, _, _, _)
Deduplicate(acc, results, i, prefs) ==
    IF i > Len(results)
    THEN acc
    ELSE CHOOSE out \in {Deduplicate(step, results, i + 1, prefs) :
                             step \in {DedupResult(acc, results[i], prefs)}} : TRUE

----------------------------------------------------------------------------
(* Threshold filter and ranking.                                           *)

Unknown == <<"U", "n", "k", "n", "o", "w", "n">>

\* The dict appended to all_jobs (lines 199-211).
JobEntry(external_id, url, job, score_data) ==
    [external_id |-> external_id,
     title |-> Get(job, "title", Unknown),
     company |-> Get(job, "company_name", Unknown),
     location |-> Get(job, "location", Unknown),
     description |-> Get(job, "description", <<>>),
     url |-> url,
     source |-> "google_jobs",
     posted_date |-> Get(Get(job, "detected_extensions", <<>>),
                         "posted_at", Null),
     score |-> score_data["overall_score"].value,
     score_breakdown |-> score_data["breakdown"],
     raw_data |-> job]

\* Mutant of MeetsThreshold: a score equal to the threshold is dropped.
MeetsThreshold_Strict(score, min_score) == score > min_score

\* score >= min_score (line 198)
MeetsThreshold(score, min_score) == score >= min_score

\* The loop body for a result that is no exception (lines 197-211): the
\* list with the job appended or not, or the exception the body raises.
SurfaceScored(acc, result, min_score) ==
    LET score_data == result.score_data IN
    IF "overall_score" \notin DOMAIN score_data
    THEN Exception("KeyError")
    ELSE IF score_data["overall_score"].type /= "number"
    THEN Exception("TypeError")
    ELSE IF MeetsThreshold(score_data["overall_score"].value, min_score)
    THEN IF "breakdown" \notin DOMAIN score_data
         THEN Exception("KeyError")
         ELSE List(Append(acc.items,
                          JobEntry(result.external_id, result.url,
                                   result.job, score_data)))
    ELSE acc

\* Mutant of SurfaceStep: a failed scoring task's exception is raised.
SurfaceStep_Propagates(acc, result, min_score) ==
    IF IsException(acc)
    THEN acc
    ELSE IF IsException(result)
         THEN result
         ELSE SurfaceScored(acc, result, min_score)

\* One iteration of the loop over the gathered scoring results (lines
\* 194-211); acc is the list built so far, or the exception already raised.
SurfaceStep(acc, result, min_score) ==
    IF IsException(acc)
    THEN acc
    ELSE IF IsException(result)
         THEN acc
         ELSE SurfaceScored(acc, result, min_score)

\* The loop (lines 193-211) from the i-th result on.
RECURSIVE Surface(_, _, _, _)
Surface(results, i, min_score, acc) ==
    IF i > Len(results)
    THEN acc
    ELSE CHOOSE out \in {Surface(results, i + 1, min_score, step) :
                             step \in {SurfaceStep(acc, results[i], min_score)}} : TRUE

\* Mutant of InsertDescending: x goes before the elements of equal score
\* (an ascending sort that is then reversed).
InsertDescending_TiesReversed(sorted, x) ==
    LET n == Cardinality({k \in 1..Len(sorted) : sorted[k].score > x.score})
    IN  SubSeq(sorted, 1, n) \o <<x>> \o SubSeq(sorted, n + 1, Len(sorted))

\* Where a stable descending sort places x among the elements already
\* placed: after every element whose score is >= the score of x.
InsertDescending(sorted, x) ==
    LET n == Cardinality({k \in 1..Len(sorted) : sorted[k].score >= x.score})
    IN  SubSeq(sorted, 1, n) \o <<x>> \o SubSeq(sorted, n + 1, Len(sorted))

\* list.sort(key=score, reverse=True)
RECURSIVE SortDescending(_, _, _)
SortDescending(jobs, i, sorted) ==
    IF i > Len(jobs)
    THEN sorted
    ELSE CHOOSE out \in {SortDescending(jobs, i + 1, step) :
                             step \in {InsertDescending(sorted, jobs[i])}} : TRUE

----------------------------------------------------------------------------
(* asyncio primitives.                                                     *)

\* The slot of a gathered awaitable that has not completed yet.
Pending == [type |-> "pending"]

\* Mutant of GatherPut: results are stored in the order of completion.
GatherPut_CompletionOrder(results, k, r) ==
    LET p == CHOOSE j \in 1..Len(results) :
                /\ results[j] = Pending
                /\ \A h \in 1..(j - 1) : results[h] /= Pending
    IN  [results EXCEPT ![p] = r]

\* asyncio.gather: the result of the k-th awaitable goes to position k,
\* whatever the order of completion.
GatherPut(results, k, r) == [results EXCEPT ![k] = r]

\* Number of slots of asyncio.Semaphore(5) (line 182).
SemaphoreSlots == 5

\* The states of a _score task: "waiting" has been created by gather and
\* has not run yet, "queued" waits in Semaphore.acquire, "woken" was
\* handed a slot by a release and has not run again yet, "inflight" awaits
\* the answer of the oracle inside "async with semaphore", "done" has
\* ended.

\* Semaphore._waiters: the tasks suspended in acquire, in the order they
\* arrived; a woken task stays in it until it runs again.
Waiters(tasks) ==
    {j \in 1..Len(tasks) : tasks[j] \in {"queued", "woken"}}

\* Mutant of Locked: the semaphore never blocks.
Locked_Never(value, tasks) == value /= value

\* Semaphore.locked(): no slot is free, or a task is in _waiters.
Locked(value, tasks) == value = 0 \/ Waiters(tasks) /= {}

\* Semaphore.acquire by a task that found the semaphore not locked.
Acquire(value) == value - 1

\* The exit of "async with semaphore" (line 185): the slot is released
\* whether score_job returned or raised. Semaphore.release adds one to
\* the value, then wakes the next waiter (WakeUpNext).
Release(value, result) == value + 1

\* Semaphore._wake_up_next: the first task of _waiters that has not been
\* woken yet, if any, is woken and the slot is taken from the value at
\* once on its behalf. woken = 0: no task was woken.
WakeUpNext(value, tasks) ==
    LET sleeping == {j \in Waiters(tasks) : tasks[j] = "queued"}
    IN  IF sleeping = {}
        THEN [value |-> value, woken |-> 0]
        ELSE [value |-> value - 1,
              woken |-> CHOOSE j \in sleeping : \A k \in sleeping : j <= k]

\* The tasks after task i has come to state and task woken (if any) was
\* woken.
EndAndWake(tasks, i, state, woken) ==
    [j \in 1..Len(tasks) |->
        IF j = i THEN state ELSE IF j = woken THEN "woken" ELSE tasks[j]]

\* A task that has not entered the body of "async with semaphore".
NotStarted(state) == state \in {"waiting", "queued", "woken"}

\* await asyncio.gather(...) (lines 188-191) returns when every task has
\* ended.
GatherDone(tasks) == \A i \in 1..Len(tasks) : tasks[i] = "done"

\* A successful result of _score (line 186).
ScoreTuple(c, score_data) ==
    [type |-> "tuple", external_id |-> c.external_id, url |-> c.url,
     job |-> c.job, score_data |-> score_data]

NoError == [type |-> "None"]

\* Task i leaves "async with semaphore" with result r (lines 185-186): the
\* slot is released, the next waiter woken, the task ends and gather
\* stores its result.
TaskEnds(i, tasks, value, results, candidate, r) ==
    LET next == WakeUpNext(Release(value, r), tasks)
    IN  [task |-> EndAndWake(tasks, i, "done", next.woken),
         semaphore |-> next.value,
         scored |-> GatherPut(results, i,
                              IF IsException(r) THEN r
                              ELSE ScoreTuple(candidate, r)),
         called |-> TRUE]

\* Task i, holding a slot, runs the body of "async with semaphore" as far
\* as it gets in one step (lines 186, 95-119). Building the request raises
\* KeyError when _scoring_context lacks a field, and the task ends before
\* any call. Otherwise it calls the oracle: the task is suspended until
\* the answer arrives or, with an oracle that answers or raises without
\* suspending its caller, ends in the same step.
Body(i, tasks, value, results, candidate, prefs, answers) ==
    IF scoring_context_raises(prefs)
    THEN {[TaskEnds(i, tasks, value, results, candidate,
                    Exception("KeyError")) EXCEPT !.called = FALSE]}
    ELSE {[task |-> EndAndWake(tasks, i, "inflight", 0),
           semaphore |-> value,
           scored |-> results,
           called |-> TRUE]}
         \cup {[TaskEnds(i, tasks, value, results, candidate,
                         score_job(response)) EXCEPT !.called = TRUE] :
                   response \in OracleResponses(answers)}

\* The first step of task i: acquire returns at once when the semaphore is
\* not locked and the task enters the body; otherwise the task joins
\* _waiters.
FirstStep(i, tasks, value, results, candidate, prefs, answers) ==
    IF Locked(value, tasks)
    THEN {[task |-> EndAndWake(tasks, i, "queued", 0),
           semaphore |-> value,
           scored |-> results,
           called |-> FALSE]}
    ELSE Body(i, tasks, Acquire(value), results, candidate, prefs, answers)

\* A woken task i runs again: it leaves _waiters, wakes the next waiter if
\* a slot is free, and enters the body.
Resume(i, tasks, value, results, candidate, prefs, answers) ==
    LET left == EndAndWake(tasks, i, "running", 0)
        next == IF value > 0 THEN WakeUpNext(value, left)
                ELSE [value |-> value, woken |-> 0]
    IN  Body(i, EndAndWake(left, i, "running", next.woken), next.value,
             results, candidate, prefs, answers)

----------------------------------------------------------------------------
(* The jobs table (database.py) and the requests that write to it.         *)

\* json.dumps(value)
json_dumps(value) == Json(value)

\* valid_statuses (api.py line 92)
ValidStatuses ==
    {"new", "reviewed", "favorited", "applied", "rejected", "archived"}

\* The row INSERT writes (lines 111-129); status takes its DEFAULT 'new'.
Row(id, job_data) ==
    [id |-> id,
     external_id |-> Get(job_data, "external_id", Null),
     title |-> job_data["title"],
     company |-> job_data["company"],
     location |-> Get(job_data, "location", Null),
     salary_min |-> Get(job_data, "salary_min", Null),
     salary_max |-> Get(job_data, "salary_max", Null),
     description |-> Get(job_data, "description", Null),
     url |-> job_data["url"],
     source |-> Get(job_data, "source", Null),
     posted_date |-> Get(job_data, "posted_date", Null),
     score |-> Get(job_data, "score", Null),
     score_breakdown |-> json_dumps(Get(job_data, "score_breakdown", "{}")),
     raw_data |-> json_dumps(Get(job_data, "raw_data", "{}")),
     status |-> "new"]

\* The UNIQUE constraint on external_id (line 21) rejects the row; NULL
\* never conflicts.
UniqueConflict(table, job_data) ==
    /\ Get(job_data, "external_id", Null) /= Null
    /\ \E i \in 1..Len(table) :
          table[i].external_id = job_data["external_id"]

\* Mutant of insert_job: INSERT OR REPLACE, the stored row gives way to the
\* new one.
insert_job_Replace(table, sequence, job_data) ==
    IF ~({"title", "company", "url"} \subseteq DOMAIN job_data)
    THEN [table |-> table, sequence |-> sequence,
          result |-> Exception("KeyError")]
    ELSE [table |-> Append(SelectSeq(table,
                              LAMBDA row :
                                 \/ row.external_id = Null
                                 \/ row.external_id
                                       /= Get(job_data, "external_id", Null)),
                           Row(sequence + 1, job_data)),
          sequence |-> sequence + 1,
          result |-> Number(sequence + 1)]

\* insert_job (lines 107-131): INSERT OR IGNORE on a fresh connection. A
\* row that conflicts is skipped without error; the rowid the table
\* allocated for it is used up all the same, and lastrowid of the fresh
\* connection is 0. Otherwise the row is appended under the next rowid.
insert_job(table, sequence, job_data) ==
    IF ~({"title", "company", "url"} \subseteq DOMAIN job_data)
    THEN [table |-> table, sequence |-> sequence,
          result |-> Exception("KeyError")]
    ELSE IF UniqueConflict(table, job_data)
    THEN [table |-> table, sequence |-> sequence + 1, result |-> Number(0)]
    ELSE [table |-> Append(table, Row(sequence + 1, job_data)),
          sequence |-> sequence + 1,
          result |-> Number(sequence + 1)]

\* update_job_status (lines 156-163)
update_job_status(table, job_id, status) ==
    [i \in 1..Len(table) |->
        IF table[i].id = job_id
        THEN [table[i] EXCEPT !.status = status]
        ELSE table[i]]

\* Jobs a discovery run returns: one listing scored in two runs, another.
StoreEntries ==
    { JobEntry(generate_external_id("b1"), "b1", BulkJob(1), ScoreDict(91)),
      JobEntry(generate_external_id("b1"), "b1", BulkJob(1), ScoreDict(80)),
      JobEntry(generate_external_id("b2"), "b2", BulkJob(2), ScoreDict(80)) }

\* The lists run_discovery may return to trigger_discovery: distinct
\* external ids, sorted by score.
DiscoveryOutputs ==
    {jobs \in SeqsUpTo(StoreEntries, MaxSaved) :
        \A a, b \in 1..Len(jobs) :
           a < b => /\ jobs[a].external_id /= jobs[b].external_id
                    /\ jobs[a].score >= jobs[b].score}

\* The job seed_test_job.py inserts (lines 8-20), and a job of another
\* caller of insert_job, which carries no external_id.
SeedJobs ==
    { [external_id |-> "test-001",
       title |-> "Senior Product Manager, AI Platform",
       company |-> "Acme Corp",
       location |-> "Remote",
       salary_min |-> 185000,
       salary_max |-> 220000,
       description |-> "Test job for endpoint validation",
       url |-> "https://example.com/jobs/test-001",
       source |-> "manual",
       score |-> 92,
       score_breakdown |-> [title |-> 95, remote |-> 100, salary |-> 90]],
      [title |-> PM, company |-> "Acme Corp", url |-> "u1", score |-> 50] }

\* No function is called on its own.
NoCall == [function |-> "none", returned |-> FALSE]

\* No trigger_discovery request is running. job_id is what an insert_job
\* call that has committed is about to return to the loop (None when no
\* call has committed since the loop last went on).
NoRequest ==
    [pc |-> "idle", jobs |-> <<>>, k |-> 1, saved |-> 0, job_id |-> NoError]

\* No request is running, the table is empty, no pair of invocations.
StoreEmpty ==
    /\ jobs_table = <<>>
    /\ sqlite_sequence = 0
    /\ request = NoRequest
    /\ last_insert = [job |-> <<>>, result |-> [type |-> "None"]]
    /\ runs = <<>>
    /\ call = NoCall

\* No discovery run is modelled in detail.
DiscoveryIdle ==
    /\ preferences = FullPreferences
    /\ provider = <<>>
    /\ oracle = "documented"
    /\ pc = "start"
    /\ search_results = <<>>
    /\ search_calls = 0
    /\ seen = {}
    /\ candidates = <<>>
    /\ task = <<>>
    /\ semaphore = SemaphoreSlots
    /\ oracle_calls = <<>>
    /\ scored = <<>>
    /\ all_jobs = <<>>
    /\ error = [type |-> "None"]

StoreInit == StoreEmpty /\ DiscoveryIdle

\* trigger_discovery up to the return of run_discovery (api.py lines
\* 98-108).
TriggerDiscovery ==
    /\ request.pc = "idle"
    /\ \E jobs \in DiscoveryOutputs :
          request' = [pc |-> "saving", jobs |-> jobs, k |-> 1, saved |-> 0,
                      job_id |-> NoError]
    /\ UNCHANGED <<jobs_table, sqlite_sequence, last_insert, beyond_store>>

\* The loop of trigger_discovery calls insert_job for its next job (api.py
\* line 110) and the call commits (database.py lines 109-130), or raises;
\* trigger_discovery still awaits the call.
SaveJob ==
    /\ request.pc = "saving"
    /\ request.k <= Len(request.jobs)
    /\ request.job_id.type = "None"
    /\ sqlite_sequence < MaxRowid
    /\ LET job == request.jobs[request.k]
           done == insert_job(jobs_table, sqlite_sequence, job)
       IN  /\ jobs_table' = done.table
           /\ sqlite_sequence' = done.sequence
           /\ last_insert' = [job |-> job, result |-> done.result]
           /\ request' = [request EXCEPT !.job_id = done.result]
    /\ UNCHANGED beyond_store

\* insert_job returns to the loop, in a later callback of the event loop
\* than its commit: the job is counted if its id is not 0 and the loop
\* goes on (api.py lines 110-112); an exception ends the request.
CountSaved ==
    /\ request.pc = "saving"
    /\ request.job_id.type /= "None"
    /\ request' = IF IsException(request.job_id)
                  THEN [request EXCEPT !.pc = "idle", !.job_id = NoError]
                  ELSE [request EXCEPT
                          !.k = @ + 1,
                          !.saved = IF request.job_id.value /= 0
                                    THEN @ + 1 ELSE @,
                          !.job_id = NoError]
    /\ UNCHANGED <<jobs_table, sqlite_sequence, last_insert, beyond_store>>

\* The loop has ended: trigger_discovery responds (api.py lines 114-122).
Respond ==
    /\ request.pc = "saving"
    /\ request.k > Len(request.jobs)
    /\ request' = [request EXCEPT !.pc = "idle"]
    /\ UNCHANGED <<jobs_table, sqlite_sequence, last_insert, beyond_store>>

\* seed_test_job.py, or any other caller of insert_job.
SeedInsert ==
    /\ sqlite_sequence < MaxRowid
    /\ \E job \in SeedJobs :
          LET done == insert_job(jobs_table, sqlite_sequence, job)
          IN  /\ jobs_table' = done.table
              /\ sqlite_sequence' = done.sequence
              /\ last_insert' = [job |-> job, result |-> done.result]
    /\ UNCHANGED <<request, beyond_store>>

\* change_job_status (api.py lines 89-96); an invalid status is refused.
ChangeJobStatus ==
    /\ \E job_id \in 1..MaxRowid, status \in {"applied", "done"} :
          jobs_table' = IF status \in ValidStatuses
                        THEN update_job_status(jobs_table, job_id, status)
                        ELSE jobs_table
    /\ UNCHANGED <<sqlite_sequence, request, last_insert, beyond_store>>

StoreNext ==
    \/ TriggerDiscovery
    \/ SaveJob
    \/ CountSaved
    \/ Respond
    \/ SeedInsert
    \/ ChangeJobStatus

SpecStore == StoreInit /\ [][StoreNext]_vars

----------------------------------------------------------------------------
(* Reading the jobs table: get_jobs and GET /api/jobs/{job_id}.            *)

\* The default of the parameter limit of get_jobs (database.py line 134).
DefaultLimit == 50

\* None, or a column that holds SQL NULL.
IsNull(value) == ToString(value) = ToString(Null)

\* The row as the table holds it: discovered_at (seconds) is the value its
\* DEFAULT datetime('now') took when the row was inserted (line 41).
Stored(row, discovered_at) == row @@ [discovered_at |-> discovered_at]

\* ORDER BY score DESC, discovered_at DESC (line 148): row a is returned
\* before row b. In descending order NULL comes after every number; rows
\* equal in both columns come out in rowid order, as SQLite (3.40) reads
\* them along idx_jobs_score (line 96).
OrderedBefore(a, b) ==
    IF IsNull(a.score) /= IsNull(b.score)
    THEN IsNull(b.score)
    ELSE IF ~IsNull(a.score) /\ a.score /= b.score
    THEN a.score > b.score
    ELSE IF a.discovered_at /= b.discovered_at
    THEN a.discovered_at > b.discovered_at
    ELSE a.id < b.id

\* The WHERE clause get_jobs builds (lines 138-146).
Matches(row, status, min_score) ==
    /\ (status /= Null /\ status /= "") => row.status = status
    /\ ~IsNull(min_score) => (~IsNull(row.score) /\ row.score >= min_score)

\* get_jobs (lines 134-153): the matching rows in order, at most limit of
\* them; SQLite reads a negative LIMIT as no limit.
get_jobs(table, status, min_score, limit) ==
    LET ordered == SortSeq(SelectSeq(table,
                              LAMBDA row : Matches(row, status, min_score)),
                           OrderedBefore)
    IN  SubSeq(ordered, 1,
               IF limit < 0 \/ Len(ordered) < limit
               THEN Len(ordered)
               ELSE limit)

HTTPException(status_code) ==
    [type |-> "HTTPException", status_code |-> status_code]

\* get_job (api.py lines 80-87): the first job of get_jobs() with the id,
\* 404 when there is none.
get_job(table, job_id) ==
    LET found == SelectSeq(get_jobs(table, Null, Null, DefaultLimit),
                           LAMBDA j : j.id = job_id)
    IN  IF found = <<>>
        THEN HTTPException(404)
        ELSE [type |-> "dict", value |-> found[1]]

\* How the scores of the stored jobs run with their ids, and whether the
\* jobs were stored within one second or a second apart.
ScorePatterns == {"rising", "falling", "equal", "partly unscored"}
TimePatterns == {"same second", "a second apart"}

\* The job stored under the i-th rowid.
StoredJob(scores, i) ==
    LET job == [title |-> PM, company |-> "Acme Corp", url |-> "u1"]
    IN  CASE scores = "rising" -> job @@ [score |-> 40 + i]
          [] scores = "falling" -> job @@ [score |-> 100 - i]
          [] scores = "equal" -> job @@ [score |-> 80]
          [] OTHER -> IF i % 2 = 0 THEN job @@ [score |-> 80] ELSE job

\* The table after n inserts without conflict: rowids 1..n.
StoredTable(n, scores, times) ==
    [i \in 1..n |->
        Stored(Row(i, StoredJob(scores, i)),
               IF times = "same second" THEN 0 ELSE i)]

\* A table of up to MaxStored jobs, and no request yet.
LookupInit ==
    /\ \E n \in 0..MaxStored, scores \in ScorePatterns, times \in TimePatterns :
          /\ jobs_table = StoredTable(n, scores, times)
          /\ sqlite_sequence = n
    /\ request = NoRequest
    /\ last_insert = [job |-> <<>>, result |-> [type |-> "None"]]
    /\ runs = <<>>
    /\ call = NoCall
    /\ DiscoveryIdle

\* GET /api/jobs/{job_id}: one request, for an id the table has handed out
\* or the next one.
GetJob ==
    /\ call = NoCall
    /\ \E job_id \in 1..(MaxStored + 1) :
          call' = [function |-> "get_job", returned |-> TRUE,
                   job_id |-> job_id, result |-> get_job(jobs_table, job_id)]
    /\ UNCHANGED beyond_call

LookupNext == GetJob

SpecLookup == LookupInit /\ [][LookupNext]_vars

----------------------------------------------------------------------------
(* run_discovery.                                                          *)

\* The runs checked: complete preferences with a catalogue provider and a
\* documented oracle, with a shorter catalogue provider and an oracle that
\* may fail or answer anything, or with the bulk provider (more candidates
\* than semaphore slots); and incomplete preferences, with the catalogue
\* provider or, for one missing scoring field, with the bulk provider.
Init ==
    /\ \/ /\ preferences = FullPreferences
          /\ provider \in CatalogueOutcomes(MaxListings)
          /\ oracle = "documented"
       \/ /\ preferences = FullPreferences
          /\ provider \in CatalogueOutcomes(MaxListingsAnyAnswer)
          /\ oracle = "anything"
       \/ /\ preferences = FullPreferences
          /\ provider \in BulkOutcomes
          /\ oracle = "bulk"
       \/ /\ preferences \in PreferenceSets \ {FullPreferences}
          /\ provider \in CatalogueOutcomes(MaxListingsIncomplete)
          /\ oracle = "anything"
       \/ /\ preferences = Without(FullPreferences, "scoring.weights")
          /\ provider \in BulkOutcomes
          /\ oracle = "bulk"
    /\ pc = "start"
    /\ search_results = <<>>
    /\ search_calls = 0
    /\ seen = {}
    /\ candidates = <<>>
    /\ task = <<>>
    /\ semaphore = SemaphoreSlots
    /\ oracle_calls = <<>>
    /\ scored = <<>>
    /\ all_jobs = <<>>
    /\ error = NoError
    /\ StoreEmpty

\* Lines 150-159: read the fields run_discovery uses itself (a missing one
\* raises KeyError), then issue one search call per query.
Start ==
    /\ pc = "start"
    /\ IF \E i \in 1..Len(EagerFields) : EagerFields[i] \notin DOMAIN preferences
       THEN /\ pc' = "aborted"
            /\ error' = Exception("KeyError")
            /\ UNCHANGED <<search_results, search_calls>>
       ELSE /\ pc' = "searching"
            /\ search_calls' = Len(preferences["search_queries"])
            /\ search_results' =
                 [q \in 1..Len(preferences["search_queries"]) |-> Pending]
            /\ error' = error
    /\ UNCHANGED <<preferences, provider, oracle, seen, candidates, task, semaphore,
                   oracle_calls, scored, all_jobs>>
    /\ UNCHANGED beyond_discovery

\* The search call of query q returns or fails (lines 156-159).
SearchComplete(q) ==
    /\ pc = "searching"
    /\ search_results[q] = Pending
    /\ search_results' = GatherPut(search_results, q, provider[q])
    /\ UNCHANGED <<preferences, provider, oracle, pc, search_calls, seen, candidates,
                   task, semaphore, oracle_calls, scored, all_jobs, error>>
    /\ UNCHANGED beyond_discovery

\* The search gather returns: deduplicate and prefilter (lines 162-179),
\* create the semaphore and one _score task per candidate (lines 182-191).
Dedup ==
    /\ pc = "searching"
    /\ \A q \in 1..Len(search_results) : search_results[q] /= Pending
    /\ LET acc == Deduplicate([seen |-> {}, candidates |-> <<>>],
                              search_results, 1, preferences)
       IN  /\ seen' = acc.seen
           /\ candidates' = acc.candidates
           /\ task' = [i \in 1..Len(acc.candidates) |-> "waiting"]
           /\ oracle_calls' = [i \in 1..Len(acc.candidates) |-> 0]
           /\ scored' = [i \in 1..Len(acc.candidates) |-> Pending]
    /\ semaphore' = SemaphoreSlots
    /\ pc' = "scoring"
    /\ UNCHANGED <<preferences, provider, oracle, search_results, search_calls,
                   all_jobs, error>>
    /\ UNCHANGED beyond_discovery

\* The first step of task i (the event loop runs the first steps of the
\* tasks in the order gather created them, lines 188-191): it acquires the
\* semaphore and runs score_job up to the oracle call, or waits.
ScoreStart(i) ==
    /\ pc = "scoring"
    /\ task[i] = "waiting"
    /\ \A j \in 1..(i - 1) : task[j] /= "waiting"
    /\ \E step \in FirstStep(i, task, semaphore, scored, candidates[i],
                             preferences, Answers(oracle)) :
         /\ task' = step.task
         /\ semaphore' = step.semaphore
         /\ scored' = step.scored
         /\ oracle_calls' = IF step.called
                            THEN [oracle_calls EXCEPT ![i] = @ + 1]
                            ELSE oracle_calls
    /\ UNCHANGED <<preferences, provider, oracle, pc, search_results, search_calls,
                   seen, candidates, all_jobs, error>>
    /\ UNCHANGED beyond_discovery

\* Task i, woken by a release, runs again (woken tasks run in the order
\* they were woken) and runs score_job up to the oracle call.
ScoreResume(i) ==
    /\ pc = "scoring"
    /\ task[i] = "woken"
    /\ \A j \in 1..(i - 1) : task[j] /= "woken"
    /\ \E step \in Resume(i, task, semaphore, scored, candidates[i],
                          preferences, Answers(oracle)) :
         /\ task' = step.task
         /\ semaphore' = step.semaphore
         /\ scored' = step.scored
         /\ oracle_calls' = IF step.called
                            THEN [oracle_calls EXCEPT ![i] = @ + 1]
                            ELSE oracle_calls
    /\ UNCHANGED <<preferences, provider, oracle, pc, search_results, search_calls,
                   seen, candidates, all_jobs, error>>
    /\ UNCHANGED beyond_discovery

\* The oracle call of the suspended task i returns or raises, after every
\* task has run its first step; score_job parses the text (lines 114-119);
\* the task ends and releases the semaphore, which hands the slot to the
\* first task that waits for one.
ScoreComplete(i) ==
    /\ pc = "scoring"
    /\ task[i] = "inflight"
    /\ \A j \in 1..Len(task) : task[j] /= "waiting"
    /\ \E response \in OracleResponses(Answers(oracle)) :
         LET step == TaskEnds(i, task, semaphore, scored, candidates[i],
                              score_job(response))
         IN  /\ scored' = step.scored
             /\ semaphore' = step.semaphore
             /\ task' = step.task
    /\ UNCHANGED <<preferences, provider, oracle, pc, search_results, search_calls,
                   seen, candidates, oracle_calls, all_jobs, error>>
    /\ UNCHANGED beyond_discovery

\* The scoring gather returns: threshold filter, sort, return (lines 193-214).
Aggregate ==
    /\ pc = "scoring"
    /\ GatherDone(task)
    /\ LET out == Surface(scored, 1,
                          preferences["scoring.minimum_score_to_surface"],
                          List(<<>>))
       IN  IF IsException(out)
           THEN /\ pc' = "aborted"
                /\ error' = out
                /\ all_jobs' = all_jobs
           ELSE /\ pc' = "done"
                /\ all_jobs' = SortDescending(out.items, 1, <<>>)
                /\ error' = error
    /\ UNCHANGED <<preferences, provider, oracle, search_results, search_calls, seen,
                   candidates, task, semaphore, oracle_calls, scored>>
    /\ UNCHANGED beyond_discovery

Next ==
    \/ Start
    \/ \E q \in 1..Len(search_results) : SearchComplete(q)
    \/ Dedup
    \/ \E i \in 1..Len(task) : ScoreStart(i)
    \/ \E i \in 1..Len(task) : ScoreResume(i)
    \/ \E i \in 1..Len(task) : ScoreComplete(i)
    \/ Aggregate

Spec == Init /\ [][Next]_vars

\* The runs with an oracle that may fail (with more candidates than
\* semaphore slots) or answer anything, on an event loop that runs every
\* step that is ready, with a provider and an oracle whose every call
\* eventually returns or fails.
LiveInit ==
    /\ Init
    /\ oracle \in {"bulk", "anything"}

LiveSpec == LiveInit /\ [][Next]_vars /\ WF_vars(Next)

----------------------------------------------------------------------------
(* Two invocations of run_discovery on one event loop.                     *)

Invocations == {1, 2}

\* What the provider returns to the searches of both invocations: lists
\* over two listings, at most MaxPairListings listings in both queries.
PairProviders ==
    {<<List(a), List(b)>> :
        a \in SeqsUpTo({BulkJob(1), BulkJob(2)}, MaxPairListings),
        b \in SeqsUpTo({BulkJob(1), BulkJob(2)}, MaxPairListings)}

\* The locals of an invocation that has not run yet (lines 141-150).
NewRun(results) ==
    [preferences |-> FullPreferences, provider |-> results, pc |-> "start",
     search_results |-> <<>>, seen |-> {}, candidates |-> <<>>,
     task |-> <<>>, semaphore |-> SemaphoreSlots, scored |-> <<>>,
     all_jobs |-> <<>>, error |-> NoError]

\* Mutant of NewSet: seen is one module-level set, which holds what the
\* other invocations have seen.
NewSet_ModuleLevel(frames, r) == UNION {frames[o].seen : o \in DOMAIN frames}

\* seen = set() (line 162): a new set, local to the invocation.
NewSet(frames, r) == {}

PairInit ==
    /\ runs \in {[r \in Invocations |-> NewRun(results)] :
                    results \in PairProviders}
    /\ jobs_table = <<>>
    /\ sqlite_sequence = 0
    /\ request = NoRequest
    /\ last_insert = [job |-> <<>>, result |-> [type |-> "None"]]
    /\ call = NoCall
    /\ DiscoveryIdle

\* Lines 150-159 in invocation r.
RunStart(r) ==
    /\ runs[r].pc = "start"
    /\ runs' = [runs EXCEPT ![r] =
         IF \E i \in 1..Len(EagerFields) :
               EagerFields[i] \notin DOMAIN @.preferences
         THEN [@ EXCEPT !.pc = "aborted", !.error = Exception("KeyError")]
         ELSE [@ EXCEPT
                 !.pc = "searching",
                 !.search_results =
                    [q \in 1..Len(runs[r].preferences["search_queries"])
                       |-> Pending]]]
    /\ UNCHANGED beyond_pair

\* The search call of query q of invocation r returns (lines 156-159).
RunSearchComplete(r, q) ==
    /\ runs[r].pc = "searching"
    /\ runs[r].search_results[q] = Pending
    /\ runs' = [runs EXCEPT ![r].search_results =
                  GatherPut(@, q, runs[r].provider[q])]
    /\ UNCHANGED beyond_pair

\* Lines 162-191 in invocation r.
RunDedup(r) ==
    /\ runs[r].pc = "searching"
    /\ \A q \in 1..Len(runs[r].search_results) :
          runs[r].search_results[q] /= Pending
    /\ LET acc == Deduplicate([seen |-> NewSet(runs, r), candidates |-> <<>>],
                              runs[r].search_results, 1, runs[r].preferences)
       IN  runs' = [runs EXCEPT ![r] =
              [@ EXCEPT
                 !.seen = acc.seen,
                 !.candidates = acc.candidates,
                 !.task = [i \in 1..Len(acc.candidates) |-> "waiting"],
                 !.scored = [i \in 1..Len(acc.candidates) |-> Pending],
                 !.semaphore = SemaphoreSlots,
                 !.pc = "scoring"]]
    /\ UNCHANGED beyond_pair

\* The first step of task i of invocation r (lines 185-186). An invocation
\* here has fewer candidates than its semaphore has slots, so no task of
\* it ever waits for a slot.
RunScoreStart(r, i) ==
    /\ runs[r].pc = "scoring"
    /\ runs[r].task[i] = "waiting"
    /\ \A j \in 1..(i - 1) : runs[r].task[j] /= "waiting"
    /\ \E step \in FirstStep(i, runs[r].task, runs[r].semaphore,
                             runs[r].scored, runs[r].candidates[i],
                             runs[r].preferences, Answers("bulk")) :
         runs' = [runs EXCEPT ![r] =
                    [@ EXCEPT !.task = step.task,
                              !.semaphore = step.semaphore,
                              !.scored = step.scored]]
    /\ UNCHANGED beyond_pair

\* The oracle call of the suspended task i of invocation r returns or
\* raises.
RunScoreComplete(r, i) ==
    /\ runs[r].pc = "scoring"
    /\ runs[r].task[i] = "inflight"
    /\ \A j \in 1..Len(runs[r].task) : runs[r].task[j] /= "waiting"
    /\ \E response \in OracleResponses(Answers("bulk")) :
         LET step == TaskEnds(i, runs[r].task, runs[r].semaphore,
                              runs[r].scored, runs[r].candidates[i],
                              score_job(response))
         IN  runs' = [runs EXCEPT ![r] =
                        [@ EXCEPT !.task = step.task,
                                  !.semaphore = step.semaphore,
                                  !.scored = step.scored]]
    /\ UNCHANGED beyond_pair

\* Lines 193-214 in invocation r.
RunAggregate(r) ==
    /\ runs[r].pc = "scoring"
    /\ GatherDone(runs[r].task)
    /\ LET out == Surface(runs[r].scored, 1,
                          runs[r].preferences["scoring.minimum_score_to_surface"],
                          List(<<>>))
       IN  runs' = [runs EXCEPT ![r] =
              IF IsException(out)
              THEN [@ EXCEPT !.pc = "aborted", !.error = out]
              ELSE [@ EXCEPT
                      !.pc = "done",
                      !.all_jobs = SortDescending(out.items, 1, <<>>)]]
    /\ UNCHANGED beyond_pair

PairNext ==
    \E r \in Invocations :
       \/ RunStart(r)
       \/ \E q \in 1..Len(runs[r].search_results) : RunSearchComplete(r, q)
       \/ RunDedup(r)
       \/ \E i \in 1..Len(runs[r].task) : RunScoreStart(r, i)
       \/ \E i \in 1..Len(runs[r].task) : RunScoreComplete(r, i)
       \/ RunAggregate(r)

SpecPair == PairInit /\ [][PairNext]_vars

----------------------------------------------------------------------------
(* _prefilter and the canonical URL, each called on its own.               *)

\* A field that may be missing: no entry, or the key with one of the values.
Optional(key, values) ==
    {[k \in {} |-> k]} \cup {[k \in {key} |-> v] : v \in values}

\* Listings for _prefilter: any title, location and description.
PrefilterJobs ==
    {t @@ l @@ d :
        t \in Optional("title",
                       {PM, SVP, <<"v", "p">>, <<"D", "G", "É">>, <<>>}),
        l \in Optional("location",
                       {<<"U", "S">>, <<"N", "Y">>, <<"n", "y", "c">>,
                        <<"Ö", "R">>}),
        d \in Optional("description",
                       {Remote, <<"R", "E", "M", "O", "T", "E">>, <<>>})}

\* Entries of an apply_options collection: without a link, with an empty
\* link, with a link.
ApplyEntries ==
    {[title |-> "Apply"], [link |-> ""], [link |-> "u1"], [link |-> "u2"]}

\* Listings for the canonical URL: any apply_options and link.
UrlJobs ==
    {a @@ l :
        a \in Optional("apply_options", SeqsUpTo(ApplyEntries, MaxApplyOptions)),
        l \in Optional("link", {"", "u1", "u2"})}

\* Keyword collections for _prefilter: the configured one lower-cased, the
\* configured one as written, one that holds the empty keyword, and none.
KeywordSets(configured) == {LowerSet(configured), configured, {<<>>}, {}}

PureInit ==
    /\ call \in
         {[function |-> "_prefilter", returned |-> FALSE, job |-> job,
           exclude_keywords |-> kws, dealbreakers |-> dbs] :
             job \in PrefilterJobs,
             kws \in KeywordSets(FullPreferences["discovery.exclude_keywords"]),
             dbs \in KeywordSets(FullPreferences["location.dealbreakers"])}
         \cup {[function |-> "url", returned |-> FALSE, job |-> job] :
                 job \in UrlJobs}
    /\ jobs_table = <<>>
    /\ sqlite_sequence = 0
    /\ request = NoRequest
    /\ last_insert = [job |-> <<>>, result |-> [type |-> "None"]]
    /\ runs = <<>>
    /\ DiscoveryIdle

\* _prefilter(job, exclude_keywords, dealbreakers) (lines 122-138)
CallPrefilter ==
    /\ call.function = "_prefilter"
    /\ ~call.returned
    /\ call' = [function |-> "_prefilter", returned |-> TRUE,
                job |-> call.job,
                exclude_keywords |-> call.exclude_keywords,
                dealbreakers |-> call.dealbreakers,
                result |-> prefilter(call.job, call.exclude_keywords,
                                     call.dealbreakers)]
    /\ UNCHANGED beyond_call

\* The canonical URL of a listing and its external_id (lines 168-174).
CallCanonicalUrl ==
    /\ call.function = "url"
    /\ ~call.returned
    /\ call' = [function |-> "url", returned |-> TRUE, job |-> call.job,
                url |-> CanonicalUrl(call.job),
                external_id |-> generate_external_id(CanonicalUrl(call.job))]
    /\ UNCHANGED beyond_call

PureNext ==
    \/ CallPrefilter
    \/ CallCanonicalUrl

SpecPure == PureInit /\ [][PureNext]_vars

----------------------------------------------------------------------------
(* Vocabulary of the properties.                                           *)

\* The deduplication loop has run.
PostDedup == pc \in {"scoring", "done"} \/ (pc = "aborted" /\ search_calls > 0)

\* The deduplication loop has just run: no scoring task has started.
DedupJustRan == pc = "scoring" /\ \A i \in 1..Len(task) : task[i] = "waiting"

\* run_discovery has left the aggregation loop: returned, or raised there.
Aggregated == pc = "done" \/ (pc = "aborted" /\ search_calls > 0)

\* The listings a search call returned; none when it failed.
ItemsOf(result) == IF result.type = "list" THEN result.items ELSE <<>>

\* The listings in flattened order: what the provider returned for each
\* query, the queries in declared order, then the order inside each
\* query's result.
RECURSIVE FlatFrom(_)
FlatFrom(q) ==
    IF q > Len(provider)
    THEN <<>>
    ELSE ItemsOf(provider[q]) \o FlatFrom(q + 1)

Flat == FlatFrom(1)

\* The canonical URLs of the listings in flattened order.
FlatUrls == LET flat == Flat IN [k \in 1..Len(flat) |-> CanonicalUrl(flat[k])]

\* Listing k is the first in flattened order with its canonical URL.
First(urls, k) == \A j \in 1..(k - 1) : urls[j] /= urls[k]

\* Position in flattened order of the first listing with the URL.
FirstIndex(urls, url) ==
    CHOOSE k \in 1..Len(urls) : urls[k] = url /\ First(urls, k)

\* The titles, locations, descriptions and keywords of the listings and
\* preferences above, each with its lower case as Python prints it:
\* 'DGÉ'.lower() is 'dgé'.
LowerCaseOf ==
    { <<<<>>, <<>>>>,
      <<<<"P", "M">>, <<"p", "m">>>>,
      <<<<"p", "m">>, <<"p", "m">>>>,
      <<<<"S", "V", "P">>, <<"s", "v", "p">>>>,
      <<<<"V", "P">>, <<"v", "p">>>>,
      <<<<"v", "p">>, <<"v", "p">>>>,
      <<<<"D", "G", "É">>, <<"d", "g", "é">>>>,
      <<<<"G", "é">>, <<"g", "é">>>>,
      <<<<"U", "S">>, <<"u", "s">>>>,
      <<<<"N", "Y">>, <<"n", "y">>>>,
      <<<<"n", "y", "c">>, <<"n", "y", "c">>>>,
      <<<<"Ö", "R">>, <<"ö", "r">>>>,
      <<<<"ö">>, <<"ö">>>>,
      <<<<"R", "e", "m", "o", "t", "e">>, <<"r", "e", "m", "o", "t", "e">>>>,
      <<<<"R", "E", "M", "O", "T", "E">>, <<"r", "e", "m", "o", "t", "e">>>> }

\* The lower case of one of these strings.
LowerCased(s) == (CHOOSE p \in LowerCaseOf : p[1] = s)[2]

\* part occurs in whole at some position.
Within(part, whole) ==
    \/ part = <<>>
    \/ \E i \in 1..Len(whole) : \E j \in i..Len(whole) :
          SubSeq(whole, i, j) = part

\* The lower-cased title contains a lower-cased excluded keyword.
HasExcludedTitle(job) ==
    \E kw \in preferences["discovery.exclude_keywords"] :
        Within(LowerCased(kw), LowerCased(Get(job, "title", <<>>)))

\* The rule of the prefilter, stated on a listing.
Acceptable(job) ==
    /\ ~HasExcludedTitle(job)
    /\ ~(/\ \E db \in preferences["location.dealbreakers"] :
              Within(LowerCased(db), LowerCased(Get(job, "location", <<>>)))
         /\ ~Within(<<"r", "e", "m", "o", "t", "e">>,
                    LowerCased(Get(job, "description", <<>>))))

\* Position of a returned job in the discovery order.
DiscoveryIndex(entry) ==
    CHOOSE i \in 1..Len(candidates) :
        candidates[i].external_id = entry.external_id

MinScore == preferences["scoring.minimum_score_to_surface"]

\* A gathered scoring result that holds a numeric score and a breakdown.
WellFormed(result) ==
    /\ result.type = "tuple"
    /\ {"overall_score", "breakdown"} \subseteq DOMAIN result.score_data
    /\ result.score_data["overall_score"].type = "number"

ScoreOf(result) == result.score_data["overall_score"].value

----------------------------------------------------------------------------
(* C1: the external_id values of the candidates kept after deduplication   *)
(* are pairwise distinct, and so are those of the returned list.           *)
C1_UniqueExternalIds ==
    /\ \A i, j \in 1..Len(candidates) :
         i /= j => candidates[i].external_id /= candidates[j].external_id
    /\ \A i, j \in 1..Len(all_jobs) :
         i /= j => all_jobs[i].external_id /= all_jobs[j].external_id

\* Listings with a repeated URL were returned and two jobs are in the output.
C1_Witness ==
    /\ pc = "done"
    /\ Len(all_jobs) >= 2
    /\ \E k \in 1..Len(FlatUrls) : ~First(FlatUrls, k)

(* C2: when the deduplication loop ends, of the listings with one          *)
(* canonical URL only the first in flattened order can be kept: every      *)
(* candidate is the first listing with its URL, the first listing with a   *)
(* URL is kept once when the prefilter accepts it, the candidates are in   *)
(* the order of these first listings, and a repeated URL raises no error.  *)
C2_FirstListingKept ==
    DedupJustRan =>
      LET flat == Flat
          urls == FlatUrls
      IN  /\ \A i \in 1..Len(candidates) :
               /\ \E k \in 1..Len(urls) : urls[k] = candidates[i].url
               /\ candidates[i].job = flat[FirstIndex(urls, candidates[i].url)]
          /\ \A k \in 1..Len(urls) :
               (First(urls, k) /\ Acceptable(flat[k])) =>
                  Cardinality({i \in 1..Len(candidates) :
                                  candidates[i].url = urls[k]}) = 1
          /\ \A i, j \in 1..Len(candidates) :
               i < j => FirstIndex(urls, candidates[i].url)
                           < FirstIndex(urls, candidates[j].url)
          /\ error = NoError

\* Two different listings share a URL, the first one is kept, and another
\* candidate follows it.
C2_Witness ==
    /\ DedupJustRan
    /\ Len(candidates) >= 2
    /\ LET flat == Flat
           urls == FlatUrls
       IN  \E j, k \in 1..Len(urls) :
              /\ j < k
              /\ First(urls, j)
              /\ urls[j] = urls[k]
              /\ flat[j] /= flat[k]
              /\ candidates[1].job = flat[j]

(* C3: a listing whose lower-cased title contains a lower-cased excluded   *)
(* keyword is never a candidate, is never passed to the scoring oracle and *)
(* is never in the returned list.                                          *)
C3_ExcludedNeverScored ==
    PostDedup =>
      /\ \A i \in 1..Len(candidates) : ~HasExcludedTitle(candidates[i].job)
      /\ \A i \in 1..Len(all_jobs) : ~HasExcludedTitle(all_jobs[i].raw_data)

\* A listing whose title holds the excluded keyword only once its capital É
\* is lower-cased was returned by a search and the run returned other jobs.
C3_Witness ==
    /\ pc = "done"
    /\ Len(all_jobs) >= 1
    /\ LET flat == Flat
           urls == FlatUrls
       IN  \E k \in 1..Len(flat) :
              /\ First(urls, k)
              /\ HasExcludedTitle(flat[k])
              /\ flat[k]["title"] = <<"D", "G", "É">>

(* C4: every returned job has score >= minimum_score_to_surface; a         *)
(* candidate scored below the threshold is not returned and one scored at  *)
(* or above the threshold is.                                              *)
C4_Threshold ==
    pc = "done" =>
      /\ \A i \in 1..Len(all_jobs) : all_jobs[i].score >= MinScore
      /\ \A i \in 1..Len(scored) :
           WellFormed(scored[i]) =>
              ( ScoreOf(scored[i]) >= MinScore <=>
                \E k \in 1..Len(all_jobs) :
                   /\ all_jobs[k].external_id = candidates[i].external_id
                   /\ all_jobs[k].score = ScoreOf(scored[i]) )

\* One candidate scored exactly at the threshold and one below it.
C4_Witness ==
    /\ pc = "done"
    /\ \E i, j \in 1..Len(scored) :
         /\ WellFormed(scored[i]) /\ ScoreOf(scored[i]) = MinScore
         /\ WellFormed(scored[j]) /\ ScoreOf(scored[j]) < MinScore

(* C5: the returned list is sorted by score, descending, and two jobs      *)
(* with equal scores are in their discovery order.                         *)
C5_RankedStable ==
    pc = "done" =>
      \A a, b \in 1..Len(all_jobs) :
         a < b =>
            /\ all_jobs[a].score >= all_jobs[b].score
            /\ all_jobs[a].score = all_jobs[b].score =>
                  DiscoveryIndex(all_jobs[a]) < DiscoveryIndex(all_jobs[b])

\* Three jobs returned: a tie, and a job ranked above one discovered before it.
C5_Witness ==
    /\ pc = "done"
    /\ Len(all_jobs) >= 3
    /\ \E a, b \in 1..Len(all_jobs) :
         a < b /\ all_jobs[a].score = all_jobs[b].score
    /\ \E a, b \in 1..Len(all_jobs) :
         a < b /\ DiscoveryIndex(all_jobs[a]) > DiscoveryIndex(all_jobs[b])

(* C6: a failed search call does not abort the run: when the deduplication *)
(* loop ends, seen and the candidates are those of a run in which every    *)
(* failed query returned an empty list, no error was raised, and the run   *)
(* never raises the search provider's error.                               *)
C6_FailedQueryCountsAsEmpty ==
    /\ DedupJustRan =>
         LET as_empty == [q \in 1..Len(provider) |->
                            IF IsException(provider[q])
                            THEN List(<<>>)
                            ELSE provider[q]]
             run == Deduplicate([seen |-> {}, candidates |-> <<>>],
                                as_empty, 1, preferences)
         IN  /\ candidates = run.candidates
             /\ seen = run.seen
             /\ error = NoError
    /\ pc = "aborted" => error.kind /= "ProviderError"

\* The first query failed and two jobs of the second one were returned.
C6_Witness ==
    /\ pc = "done"
    /\ IsException(provider[1])
    /\ ~IsException(provider[2])
    /\ Len(all_jobs) >= 2

(* C7: a candidate whose scoring task failed (the call raised, or the text *)
(* was no JSON) is not in the returned list, and the run ends as the       *)
(* aggregation of the other candidates' results alone ends.                *)
C7_FailedCandidateDropped ==
    Aggregated =>
      LET others == SelectSeq(scored, LAMBDA r : ~IsException(r))
          out == Surface(others, 1, MinScore, List(<<>>))
      IN  /\ IF IsException(out)
             THEN pc = "aborted" /\ error = out
             ELSE pc = "done" /\ all_jobs = SortDescending(out.items, 1, <<>>)
          /\ \A i \in 1..Len(scored) :
               IsException(scored[i]) =>
                  \A k \in 1..Len(all_jobs) :
                     all_jobs[k].external_id /= candidates[i].external_id

\* One candidate's text was no JSON, and another candidate was returned.
C7_Witness ==
    /\ pc = "done"
    /\ Len(all_jobs) >= 1
    /\ \E i \in 1..Len(scored) :
         IsException(scored[i]) /\ scored[i].kind = "JSONDecodeError"

\* A decoded response that is no valid ScoreResult.
Malformed(result) == result.type = "tuple" /\ ~WellFormed(result)

(* C8: a candidate whose response decodes but is no valid ScoreResult (no  *)
(* overall_score, no breakdown, a score that is no number) is dropped and  *)
(* run_discovery returns the list of the others; no error reaches the      *)
(* caller.                                                                 *)
C8_MalformedDropped ==
    (Aggregated /\ \E i \in 1..Len(scored) : Malformed(scored[i])) =>
       /\ pc = "done"
       /\ \A i \in 1..Len(scored) :
            Malformed(scored[i]) =>
               \A k \in 1..Len(all_jobs) :
                  all_jobs[k].external_id /= candidates[i].external_id

\* The scoring tasks whose oracle call is in flight.
InFlight == {i \in 1..Len(task) : task[i] = "inflight"}

(* C9: at most 5 scoring-oracle calls are in flight at any time.           *)
C9_AtMostFiveInFlight == Cardinality(InFlight) <= 5

\* Five calls are in flight while a sixth candidate waits for a slot.
C9_Witness ==
    /\ Cardinality(InFlight) = 5
    /\ \E i \in 1..Len(task) : task[i] = "queued"

(* C10: when the preferences lack a required field, run_discovery aborts   *)
(* before any search call or oracle call is issued.                        *)
C10_AbortsBeforeAnyCall ==
    ~(RequiredFields \subseteq DOMAIN preferences) =>
       /\ pc \in {"start", "aborted"}
       /\ search_calls = 0
       /\ \A i \in 1..Len(oracle_calls) : oracle_calls[i] = 0

(* C11: in one run the scoring oracle is invoked exactly once for each     *)
(* distinct external_id that passes the prefilter: the scoring tasks are   *)
(* the first acceptable listings of the distinct canonical URLs (none for  *)
(* a duplicate or a rejected listing), no task calls the oracle twice, and *)
(* when the run ends every task has called it once.                        *)
C11_OracleOncePerCandidate ==
    /\ DedupJustRan =>
         LET flat == Flat
             urls == FlatUrls
         IN  Len(oracle_calls) =
                Cardinality({k \in 1..Len(urls) :
                                First(urls, k) /\ Acceptable(flat[k])})
    /\ \A i \in 1..Len(oracle_calls) : oracle_calls[i] <= 1
    /\ Aggregated => \A i \in 1..Len(oracle_calls) : oracle_calls[i] = 1

\* The outcome of the candidate's scoring call, looked up by external_id
\* among gathered results; a failed call left no tuple.
OutcomeIn(results, c) ==
    IF \E j \in 1..Len(results) :
          results[j].type = "tuple" /\ results[j].external_id = c.external_id
    THEN results[CHOOSE j \in 1..Len(results) :
                    results[j].type = "tuple"
                    /\ results[j].external_id = c.external_id]
    ELSE Exception("Failed")

OutcomeOf(c) == OutcomeIn(scored, c)

\* What the aggregation loop of a run alone ends with: the provider's
\* results in declared order, each candidate with its own outcome, in
\* discovery order.
RunAlone(results, prefs, outcomes) ==
    LET run == Deduplicate([seen |-> {}, candidates |-> <<>>],
                           results, 1, prefs)
        own == [i \in 1..Len(run.candidates) |->
                   OutcomeIn(outcomes, run.candidates[i])]
    IN  Surface(own, 1, prefs["scoring.minimum_score_to_surface"],
                List(<<>>))

SequentialRun == RunAlone(provider, preferences, scored)

(* C12: for fixed search results per query and fixed oracle outcomes per   *)
(* candidate the returned list does not depend on the order in which the   *)
(* concurrent calls complete: each completed search result is stored at    *)
(* its query's position, each scoring result at its candidate's position,  *)
(* and the returned list is the list of the sequential run.                *)
C12_OrderIndependent ==
    /\ pc = "searching" =>
         \A q \in 1..Len(search_results) :
            search_results[q] \in {Pending, provider[q]}
    /\ pc = "scoring" =>
         \A i \in 1..Len(scored) :
            scored[i].type = "tuple" =>
               scored[i].external_id = candidates[i].external_id
    /\ pc = "done" =>
         LET out == SequentialRun
         IN  /\ ~IsException(out)
             /\ all_jobs = SortDescending(out.items, 1, <<>>)

\* The second candidate's call has completed while the first one's is
\* still in flight, after both queries returned listings.
C12_Witness ==
    /\ pc = "scoring"
    /\ Len(task) >= 2
    /\ task[1] = "inflight"
    /\ task[2] = "done"
    /\ scored[2].type = "tuple"
    /\ \A q \in 1..Len(provider) :
         provider[q].type = "list" /\ provider[q].items /= <<>>

\* The rows of the table that hold the external_id.
RowsWith(external_id) ==
    {i \in 1..Len(jobs_table) : jobs_table[i].external_id = external_id}

(* C13: insert_job is idempotent on external_id: the jobs table never      *)
(* holds two rows with one non-null external_id, and an insert_job call    *)
(* for an external_id that is already stored raises no error and leaves    *)
(* every row of the table as it was.                                       *)
C13_InsertIdempotent ==
    /\ [](\A i, j \in 1..Len(jobs_table) :
             (i /= j /\ jobs_table[i].external_id /= Null) =>
                jobs_table[i].external_id /= jobs_table[j].external_id)
    /\ [][(/\ sqlite_sequence' /= sqlite_sequence
           /\ "external_id" \in DOMAIN last_insert'.job
           /\ RowsWith(last_insert'.job["external_id"]) /= {})
          => /\ jobs_table' = jobs_table
             /\ ~IsException(last_insert'.result)]_vars

\* A second discovery run has just re-inserted, with another score, a job
\* whose stored row the user had marked as applied.
C13_Witness ==
    /\ "external_id" \in DOMAIN last_insert.job
    /\ last_insert.result = Number(0)
    /\ request.pc = "saving"
    /\ \E i \in RowsWith(last_insert.job["external_id"]) :
          /\ jobs_table[i].status = "applied"
          /\ jobs_table[i].score /= last_insert.job["score"]

\* The scoring tasks of an invocation whose oracle call is in flight.
InFlightOf(r) == {i \in 1..Len(runs[r].task) : runs[r].task[i] = "inflight"}

(* C14: two invocations of run_discovery that run concurrently share no    *)
(* mutable state: in every interleaving of their steps each invocation's   *)
(* candidates are those of its own search results alone, its semaphore     *)
(* counts its own calls in flight only, and the list it returns is the     *)
(* list it returns when run alone on the same results and outcomes.        *)
C14_RunsIndependent ==
    \A r \in DOMAIN runs :
       /\ runs[r].pc \in {"scoring", "done"} =>
            /\ runs[r].candidates =
                  Deduplicate([seen |-> {}, candidates |-> <<>>],
                              runs[r].provider, 1,
                              runs[r].preferences).candidates
            /\ SemaphoreSlots - runs[r].semaphore = Cardinality(InFlightOf(r))
       /\ runs[r].pc = "done" =>
            LET out == RunAlone(runs[r].provider, runs[r].preferences,
                                runs[r].scored)
            IN  /\ ~IsException(out)
                /\ runs[r].all_jobs = SortDescending(out.items, 1, <<>>)

\* Both invocations have an oracle call in flight for the same external_id,
\* and the first one has already gathered a result.
C14_Witness ==
    /\ runs /= <<>>
    /\ \A r \in Invocations : runs[r].pc = "scoring"
    /\ \E i \in InFlightOf(1), j \in InFlightOf(2) :
          runs[1].candidates[i].external_id = runs[2].candidates[j].external_id
    /\ \E i \in 1..Len(runs[1].scored) : runs[1].scored[i].type = "tuple"

\* The scoring tasks a release has woken and handed its slot, which have
\* not run since.
Woken == {i \in 1..Len(task) : task[i] = "woken"}

\* The slots held by oracle calls: those taken from the semaphore, less
\* those handed to a woken task that has not started its call yet.
HeldSlots == SemaphoreSlots - semaphore - Cardinality(Woken)

(* C15: a scoring task that fails still releases its slot: in every state  *)
(* the number of held semaphore slots equals the number of oracle calls in *)
(* flight, and the oracle call of every candidate is eventually started,   *)
(* also with more than 5 candidates and failing calls.                     *)
C15_FailedTaskReleasesSlot ==
    /\ [](HeldSlots = Cardinality(InFlight))
    /\ [](DedupJustRan
          => <>(\A i \in 1..Len(task) : oracle_calls[i] >= 1))

\* The first rule: the lower-cased title contains an excluded keyword
\* (the empty keyword is contained in every title).
TitleRule(job, exclude_keywords) ==
    \E kw \in exclude_keywords :
       Within(kw, LowerCased(Get(job, "title", <<>>)))

\* The second rule: the lower-cased location contains a dealbreaker and
\* the lower-cased description does not contain "remote".
LocationRule(job, dealbreakers) ==
    /\ \E db \in dealbreakers :
          Within(db, LowerCased(Get(job, "location", <<>>)))
    /\ ~Within(<<"r", "e", "m", "o", "t", "e">>,
               LowerCased(Get(job, "description", <<>>)))

(* C16: _prefilter rejects a job if and only if its lower-cased title      *)
(* contains an excluded keyword, or its lower-cased location contains a    *)
(* dealbreaker while its lower-cased description does not contain          *)
(* "remote"; it accepts every other job, whichever rule is tried first.    *)
C16_PrefilterRule ==
    (call.function = "_prefilter" /\ call.returned) =>
       /\ call.result = FALSE <=>
             \/ TitleRule(call.job, call.exclude_keywords)
             \/ LocationRule(call.job, call.dealbreakers)
       /\ call.result = IF LocationRule(call.job, call.dealbreakers)
                        THEN FALSE
                        ELSE ~TitleRule(call.job, call.exclude_keywords)

\* A job whose location holds the dealbreaker "ö" only once its capital Ö is
\* lower-cased was kept because its description says REMOTE in capitals.
C16_Witness ==
    /\ call.function = "_prefilter"
    /\ call.returned
    /\ call.result = TRUE
    /\ <<"ö">> \in call.dealbreakers
    /\ "location" \in DOMAIN call.job
    /\ call.job["location"] = <<"Ö", "R">>
    /\ "description" \in DOMAIN call.job
    /\ call.job["description"] = <<"R", "E", "M", "O", "T", "E">>

\* The link of the first entry of the apply-options collection.
FirstApplyLink(job) == Get(job["apply_options"][1], "link", "")

\* The collection of apply options is present and non-empty.
HasApplyOptions(job) ==
    "apply_options" \in DOMAIN job /\ Len(job["apply_options"]) > 0

(* C17 as claimed: the canonical URL is the link of the first entry of the *)
(* apply-options collection whenever that collection is present and        *)
(* non-empty, and the generic link field otherwise; the external_id is the *)
(* md5 of that URL, and a listing with neither yields the empty string.    *)
C17_FirstApplyOptionLink ==
    (call.function = "url" /\ call.returned) =>
       /\ call.url = IF HasApplyOptions(call.job)
                     THEN FirstApplyLink(call.job)
                     ELSE Get(call.job, "link", "")
       /\ call.external_id = MD5Table[call.url]

(* C17 as amended: the canonical URL is the link of the first entry of the *)
(* apply-options collection when that collection is non-empty and the      *)
(* entry has a non-empty link, and the generic link field in every other   *)
(* case; a listing with neither yields the empty string.                   *)
C17_FirstApplyOptionLinkOrGeneric ==
    (call.function = "url" /\ call.returned) =>
       /\ (HasApplyOptions(call.job) /\ FirstApplyLink(call.job) /= "")
             => call.url = FirstApplyLink(call.job)
       /\ (~HasApplyOptions(call.job) \/ FirstApplyLink(call.job) = "")
             => /\ "link" \in DOMAIN call.job => call.url = call.job["link"]
                /\ "link" \notin DOMAIN call.job => call.url = ""
       /\ call.external_id = MD5Table[call.url]

\* The first apply option has no link and the URL is the generic link.
C17_Witness ==
    /\ call.function = "url"
    /\ call.returned
    /\ HasApplyOptions(call.job)
    /\ "link" \notin DOMAIN call.job["apply_options"][1]
    /\ call.url = "u2"

(* C18: every entry of the returned list has a score within [0,1] (0..100  *)
(* in hundredths), whatever numeric overall_score the oracle returns.      *)
C18_ScoresInUnitRange ==
    pc = "done" =>
       \A k \in 1..Len(all_jobs) :
          all_jobs[k].score >= 0 /\ all_jobs[k].score <= 100

(* C19: deduplication is applied before the prefilter: a listing the       *)
(* prefilter rejects still records its external_id as seen, so a later     *)
(* listing with the same canonical URL is dropped as a duplicate and is    *)
(* never scored nor returned, even if it would pass the prefilter.         *)
C19_RejectedListingStillSeen ==
    (DedupJustRan \/ pc = "done") =>
       LET flat == Flat
           urls == FlatUrls
       IN  /\ seen = {generate_external_id(urls[k]) : k \in 1..Len(urls)}
           /\ \A k \in 1..Len(urls) :
                 (First(urls, k) /\ ~Acceptable(flat[k])) =>
                    /\ \A i \in 1..Len(candidates) :
                          candidates[i].url /= urls[k]
                    /\ \A i \in 1..Len(all_jobs) : all_jobs[i].url /= urls[k]

\* A rejected listing was followed by an acceptable listing with the same
\* canonical URL, and the run returned another job.
C19_Witness ==
    /\ pc = "done"
    /\ Len(all_jobs) >= 1
    /\ LET flat == Flat
           urls == FlatUrls
       IN  \E j, k \in 1..Len(urls) :
              /\ j < k
              /\ First(urls, j)
              /\ urls[j] = urls[k]
              /\ ~Acceptable(flat[j])
              /\ Acceptable(flat[k])

(* C20: if every search call and every scoring call eventually returns or  *)
(* fails, run_discovery with complete preferences eventually returns, for  *)
(* any number of candidates (also more than 5). When the run returns all   *)
(* 5 slots are free, and it does not return while a scoring call is        *)
(* pending.                                                                *)
C20_EventuallyReturns ==
    /\ preferences = FullPreferences => <>(pc = "done")
    /\ [](pc = "done" =>
            /\ semaphore = SemaphoreSlots
            /\ \A i \in 1..Len(task) :
                  task[i] = "done" /\ scored[i] /= Pending)

\* Positions in flattened order of the listings with an empty canonical
\* URL.
EmptyUrlListings == LET urls == FlatUrls IN {k \in 1..Len(urls) : urls[k] = ""}

\* Positions among the candidates of those with an empty URL.
EmptyUrlCandidates == {i \in 1..Len(candidates) : candidates[i].url = ""}

(* C21: all listings whose canonical URL is empty get the same            *)
(* external_id, so in one run at most one of them is kept as a candidate: *)
(* the first in flattened order, if the prefilter accepts it. Every other *)
(* one is dropped as a duplicate, even when it is a different job.        *)
C21_EmptyUrlListingsCollapse ==
    (DedupJustRan \/ pc = "done") =>
       LET flat == Flat
           empty == EmptyUrlListings
           kept == EmptyUrlCandidates
       IN  /\ \A j, k \in empty :
                 Candidate(flat[j]).external_id = Candidate(flat[k]).external_id
           /\ Cardinality(kept) <= 1
           /\ empty /= {} =>
                 LET first == CHOOSE k \in empty : \A j \in empty : k <= j
                 IN  /\ Acceptable(flat[first]) => kept /= {}
                     /\ \A i \in kept : candidates[i].job = flat[first]
           /\ empty = {} => kept = {}

\* Two different jobs with an empty canonical URL were returned; the first
\* was kept as a candidate and the other was dropped.
C21_Witness ==
    /\ DedupJustRan
    /\ Cardinality(EmptyUrlCandidates) = 1
    /\ LET flat == Flat
       IN  \E j, k \in EmptyUrlListings :
              /\ j < k
              /\ flat[j] /= flat[k]
              /\ \A i \in EmptyUrlListings : j <= i
              /\ \A i \in 1..Len(candidates) : candidates[i].job /= flat[k]

\* The jobs table holds a row with the id.
RowExists(table, job_id) == \E i \in 1..Len(table) : table[i].id = job_id

(* C22: GET /api/jobs/{job_id} returns the job whenever a row with that   *)
(* id exists in the jobs table, whatever the number of stored jobs and    *)
(* their scores, and answers 404 only when no row with that id exists.    *)
C22_GetJobFindsStoredRow ==
    (call.function = "get_job" /\ call.returned) =>
       IF RowExists(jobs_table, call.job_id)
       THEN /\ call.result.type = "dict"
            /\ call.result.value.id = call.job_id
            /\ \E i \in 1..Len(jobs_table) : jobs_table[i] = call.result.value
       ELSE call.result = HTTPException(404)

=============================================================================
